---- MODULE Spec2Model ----
(***************************************************************************)
(* Model of the profile aggregation pipeline of social-ai (src/ucl-api.js). *)
(*                                                                         *)
(* One call of getProfile(userId) is modelled at the granularity of the    *)
(* JavaScript event loop: every action is one I/O event (the call itself,  *)
(* the arrival of a response's status line, the end of a response body)    *)
(* together with the whole chain of promise reactions it triggers, which   *)
(* JavaScript runs to completion before the next I/O event is handled.     *)
(***************************************************************************)
EXTENDS Integers, Sequences, FiniteSets, TLC

VARIABLES env, call, fan, join, gp, reqCount, adapterCalls, rejectionLog,
          settleCount, lateOutcomes

\* One call of one upstream fetcher, with the status line of its response.
VARIABLES fx

gpVars == <<env, call, fan, join, gp, reqCount, adapterCalls, rejectionLog,
            settleCount, lateOutcomes>>

\* One call of transformApiData: raw holds the four payloads it is given
\* (they are objects, the call can write to them), raw0 is what they were
\* before the first call, out the outcome of the first call and out2 the
\* outcome of a second call on the same payloads.
VARIABLES raw, raw0, out, out2

\* One run of the ORCID funding adapter on a parsed ORCID record: the record
\* it is given and the outcome.
VARIABLES oa

fxVars == <<fx>>

trVars == <<raw, raw0, out, out2>>

\* The ORCID caching endpoint of the server, GET /api/orcid/:orcidId:
\* cacheFile is the content of the cache file of each ORCID iD, req the
\* requests made to the endpoint by fetchGrantsFromOrcid, written the iDs
\* for which a write of the cache file has completed.
VARIABLES cacheFile, req, written

\* The image generation endpoint of the server, POST /api/generate/image:
\* comfyUiUrl is the COMFYUI_URL setting, comfyWorkflowFile and comfyWorkflow
\* the workflow loaded at startup, img the requests made to the endpoint.
VARIABLES comfyUiUrl, comfyWorkflowFile, comfyWorkflow, img

oaVars == <<oa>>

ceVars == <<cacheFile, req, written>>

igVars == <<comfyUiUrl, comfyWorkflowFile, comfyWorkflow, img>>

extVars == <<oaVars, ceVars, igVars>>

vars == <<gpVars, fxVars, trVars, extVars>>

-----------------------------------------------------------------------------
(* Values                                                                  *)

\* The five HTTP endpoints ucl-api.js talks to.
Services == {"profile", "publications", "teaching", "orcid", "ucl"}

\* The three promises handed to Promise.all in getProfile.
FanOutNames == {"publications", "teaching", "grants"}

\* process.env.ORCID_ACCESS_TOKEN: unset, set to the empty string, or set.
TokenValues == {"<unset>", "", "token"}

\* profileData.orcid?.value: field absent, empty string, or an identifier.
OrcidValues == {"<absent>", "", "0000-0002-1825-0097"}

\* JavaScript truthiness of an optional string.
Truthy(s) == s \notin {"<absent>", "<unset>", ""}

\* Shapes of a parsed JSON body of the profile service and of the three
\* linkedTo services: a well formed object, the JSON value null, or an
\* object holding a null entry in a list whose entries the normaliser
\* dereferences (personalWebsites, resource, files, links).
BodyShapes == {"ok", "null", "nullEntry"}

\* Shapes of a parsed ORCID record: funding groups that are well formed,
\* no activities-summary.fundings.group at all, or a group that has no
\* funding-summary list.
OrcidShapes == {"ok", "noFundings", "badGroup"}

NoErr == [src |-> "none", kind |-> "none"]

NoBody == [src |-> "none", shape |-> "none", orcid |-> "<absent>"]

Err(s, k) == [src |-> s, kind |-> k]

Body(s, sh, o) == [src |-> s, shape |-> sh, orcid |-> o]

NoDoc == [profile |-> NoBody, publications |-> NoBody, teaching |-> NoBody,
          grants |-> NoBody]

IdleCall == [stage |-> "idle", body |-> NoBody, err |-> NoErr]

PendingPromise == [state |-> "pending", value |-> NoBody, err |-> NoErr]

Resolved(v) == [state |-> "resolved", value |-> v, err |-> NoErr]

Rejected(e) == [state |-> "rejected", value |-> NoBody, err |-> e]

InFlight(c) == c.stage \in {"headers", "body"}

-----------------------------------------------------------------------------
(* The state of one call, as a record, and the functions the code applies  *)
(* to it.  Every operator below takes the state t reached so far in the    *)
(* current event-loop turn and returns the state after one more piece of   *)
(* code has run.                                                           *)

\* History kept for the properties: reqCount counts the requests sent to
\* each service, adapterCalls the calls of fetchGrantsFromOrcid,
\* rejectionLog lists the rejections of the three joined promises in the
\* order they happened, settleCount counts the settlements of getProfile's
\* promise, lateOutcomes holds the services whose call finished after
\* getProfile had settled.
Cur == [call |-> call, fan |-> fan, join |-> join, gp |-> gp,
        reqCount |-> reqCount, adapterCalls |-> adapterCalls,
        rejectionLog |-> rejectionLog, settleCount |-> settleCount]

Commit(t) ==
    /\ call' = t.call
    /\ fan' = t.fan
    /\ join' = t.join
    /\ gp' = t.gp
    /\ reqCount' = t.reqCount
    /\ adapterCalls' = t.adapterCalls
    /\ rejectionLog' = t.rejectionLog
    /\ settleCount' = t.settleCount
    /\ lateOutcomes' = lateOutcomes \cup
          {s \in Services : /\ gp.state \in {"resolved", "rejected"}
                            /\ InFlight(call[s])
                            /\ t.call[s].stage \in {"resolved", "rejected"}}
    /\ UNCHANGED env
    /\ UNCHANGED fxVars
    /\ UNCHANGED trVars
    /\ UNCHANGED extVars

\* One call of fetch(url): one more request to service s.
IssueTwice(cnt, s) == [cnt EXCEPT ![s] = @ + 2]

IssueRequest(cnt, s) == [cnt EXCEPT ![s] = @ + 1]

\* The fetcher for service s runs up to its `await fetch(...)`.
StartFetch(t, s) ==
    [t EXCEPT !.call[s] = [IdleCall EXCEPT !.stage = "headers"],
              !.reqCount = IssueRequest(t.reqCount, s)]

\* The promise returned by getProfile settles; a promise settles once.
SettleGp(t, st, doc, e) ==
    IF t.gp.state = "pending"
    THEN [t EXCEPT !.gp = [state |-> st, doc |-> doc, err |-> e],
                   !.settleCount = @ + 1]
    ELSE t

\* transformApiData dereferences the payloads and the entries of their
\* lists without a guard: a null payload or a null list entry raises a
\* TypeError.  teachingApiData.resource is passed through, its entries are
\* never dereferenced.
TransformThrows(doc) ==
    \/ doc.profile.shape = "nullEntry"
    \/ doc.publications.shape \in {"null", "nullEntry"}
    \/ doc.teaching.shape = "null"
    \/ doc.grants.shape \in {"null", "nullEntry"}

\* The continuation of getProfile after `await Promise.all([...])`.
Transform(t) ==
    LET doc == [profile |-> t.call["profile"].body,
                publications |-> t.fan["publications"].value,
                teaching |-> t.fan["teaching"].value,
                grants |-> t.fan["grants"].value]
    IN IF TransformThrows(doc)
       THEN SettleGp(t, "rejected", NoDoc, Err("transform", "type"))
       ELSE SettleGp(t, "resolved", doc, NoErr)

\* Promise.all after promise p of f has just settled: the first rejection
\* rejects the join with that rejection's error, the join fulfils when all
\* three are fulfilled, and a settled join never changes.
AwaitInOrder(j, f, p) ==
    LET order == <<"publications", "teaching", "grants">>
        open == {i \in 1..3 : f[order[i]].state # "resolved"}
        first == CHOOSE i \in open : \A k \in open : i <= k
    IN IF open = {} THEN [state |-> "resolved", err |-> NoErr]
       ELSE IF f[order[first]].state = "rejected"
            THEN [state |-> "rejected", err |-> f[order[first]].err]
            ELSE [state |-> "pending", err |-> NoErr]

AllSettled(j, f, p) ==
    IF j.state # "pending" THEN j
    ELSE IF \A q \in FanOutNames : f[q].state \in {"resolved", "rejected"}
         THEN [state |-> "resolved", err |-> NoErr]
         ELSE j

PromiseAll(j, f, p) ==
    IF j.state # "pending" THEN j
    ELSE IF f[p].state = "rejected"
         THEN [state |-> "rejected", err |-> f[p].err]
         ELSE IF \A q \in FanOutNames : f[q].state = "resolved"
              THEN [state |-> "resolved", err |-> NoErr]
              ELSE j

\* What the rejection of the join does to the calls still in flight:
\* nothing, Promise.all has no cancellation.
AbortPeers(c) ==
    [s \in Services |->
        IF InFlight(c[s]) THEN [c[s] EXCEPT !.stage = "aborted"] ELSE c[s]]

PeersOnReject(c) == c

\* One of the three promises handed to Promise.all settles, and the
\* reactions of the join and of getProfile run.
SettleFan(t, p, promise) ==
    LET t1 == [t EXCEPT !.fan[p] = promise,
                        !.rejectionLog =
                            IF promise.state = "rejected"
                            THEN Append(@, promise.err) ELSE @]
        j == PromiseAll(t1.join, t1.fan, p)
        t2 == [t1 EXCEPT !.join = j]
    IN IF j = t.join THEN t2
       ELSE IF j.state = "rejected"
            THEN SettleGp([t2 EXCEPT !.call = PeersOnReject(@)],
                          "rejected", NoDoc, j.err)
            ELSE IF j.state = "resolved" THEN Transform(t2)
                 ELSE t2

-----------------------------------------------------------------------------
(* fetchGrants: the grant source selector                                  *)

\* The guard of the preferred path.
UseOrcidIdOnly(orcidId, token) == Truthy(orcidId)

UseOrcid(orcidId, token) == Truthy(orcidId) /\ Truthy(token)

\* What fetchGrants does with an error e raised by fetchGrantsFromOrcid:
\* the catch block swallows it and calls the native fetcher.
RethrowOrcid(e) == "throw"

CatchOrcid(e) == "fallback"

\* What fetchGrants returns on the fallback path once the native fetcher
\* has produced body b: the native fetcher's promise itself.
FallbackEmpty(b) == [b EXCEPT !.shape = "empty"]

FallbackResult(b) == b

\* fetchGrantsFromOrcid has failed with e.
FallbackWhilePending(t, e) ==
    IF t.gp.state = "pending" THEN StartFetch(t, "ucl") ELSE t

OrcidFailed(t, e) ==
    IF CatchOrcid(e) = "fallback"
    THEN StartFetch(t, "ucl")
    ELSE SettleFan(t, "grants", Rejected(e))

\* fetchGrants(userId, orcidId) runs up to its first await.  The adapter
\* builds its URL from INTERNAL_API_BASE_URL; when that is unset the URL is
\* not absolute and fetch rejects without sending anything.
StartGrants(t, orcidId) ==
    IF UseOrcid(orcidId, env.token)
    THEN LET t1 == [t EXCEPT !.adapterCalls = @ + 1]
         IN IF env.baseUrl
            THEN StartFetch(t1, "orcid")
            ELSE OrcidFailed(t1, Err("orcid", "url"))
    ELSE StartFetch(t, "ucl")

-----------------------------------------------------------------------------
(* getProfile: the orchestrator                                            *)

\* const orcidId = profileData.orcid?.value || null
OrcidIdOf(body) == IF Truthy(body.orcid) THEN body.orcid ELSE "<absent>"

\* `await fetchProfileData(userId)`: the rest of getProfile runs only when
\* the profile promise is fulfilled.
ProceedAlways(st) == TRUE

ProceedAfterProfile(st) == st = "resolved"

\* The fetches getProfile starts in the array literal it hands to
\* Promise.all, before it awaits anything.
FanOutSequential == {"publications"}

FanOut == {"publications", "teaching", "grants"}

FanOutStep(t, orcidId) ==
    LET t0 == [t EXCEPT !.join = [state |-> "pending", err |-> NoErr],
                        !.fan = [p \in FanOutNames |->
                                   IF p \in FanOut THEN PendingPromise
                                   ELSE t.fan[p]]]
        t1 == IF "publications" \in FanOut
              THEN StartFetch(t0, "publications") ELSE t0
        t2 == IF "teaching" \in FanOut
              THEN StartFetch(t1, "teaching") ELSE t1
    IN IF "grants" \in FanOut THEN StartGrants(t2, orcidId) ELSE t2

\* The fetcher of service s has failed with e: the reactions that follow.
FetcherFailed(t, s, e) ==
    LET t1 == [t EXCEPT !.call[s].stage = "rejected", !.call[s].err = e]
    IN CASE s = "profile" ->
              IF ProceedAfterProfile("rejected")
              THEN FanOutStep(t1, "<absent>")
              ELSE SettleGp(t1, "rejected", NoDoc, e)
         [] s \in {"publications", "teaching"} -> SettleFan(t1, s, Rejected(e))
         [] s = "orcid" -> OrcidFailed(t1, e)
         [] s = "ucl" ->
              SettleFan(t1, "grants", Rejected(e))

\* response.json() of service s has produced body b: the reactions that
\* follow.  For the ORCID endpoint the adapter then flattens the funding
\* groups; a group without a funding-summary list puts undefined in the
\* flattened list and the mapping over it raises a TypeError.
FetcherParsed(t, s, b) ==
    LET t1 == [t EXCEPT !.call[s].stage = "resolved", !.call[s].body = b]
    IN CASE s = "profile" ->
              IF b.shape = "null"
              THEN SettleGp(t1, "rejected", NoDoc, Err("getProfile", "type"))
              ELSE FanOutStep(t1, OrcidIdOf(b))
         [] s \in {"publications", "teaching"} -> SettleFan(t1, s, Resolved(b))
         [] s = "orcid" ->
              IF b.shape = "badGroup"
              THEN OrcidFailed(t1, Err("orcid", "malformed"))
              ELSE SettleFan(t1, "grants",
                     Resolved(Body("orcid",
                                   IF b.shape = "ok" THEN "ok" ELSE "empty",
                                   "<absent>")))
         [] s = "ucl" ->
              SettleFan(t1, "grants",
                        Resolved(IF t1.adapterCalls > 0 THEN FallbackResult(b)
                                 ELSE b))

\* The bodies response.json() of service s can produce.
Bodies(s) ==
    CASE s = "profile" ->
            {Body(s, "null", "<absent>")} \cup
            {Body(s, sh, o) : sh \in {"ok", "nullEntry"}, o \in OrcidValues}
      [] s = "orcid" -> {Body(s, sh, "<absent>") : sh \in OrcidShapes}
      [] OTHER -> {Body(s, sh, "<absent>") : sh \in BodyShapes}

-----------------------------------------------------------------------------
(* Actions: one per I/O event                                              *)

\* No fetcher is being looked at on its own.
FxIdle == fx = [stage |-> "unused"]

\* transformApiData is not being looked at on its own.
TrIdle ==
    /\ raw = "unused"
    /\ raw0 = "unused"
    /\ out = "unused"
    /\ out2 = "unused"

\* The ORCID funding adapter is not being looked at on its own.
OaIdle == oa = "unused"

\* The caching endpoint is not being looked at.
CeIdle ==
    /\ cacheFile = "unused"
    /\ req = "unused"
    /\ written = "unused"

\* The image generation endpoint is not being looked at.
IgIdle ==
    /\ comfyUiUrl = "unused"
    /\ comfyWorkflowFile = "unused"
    /\ comfyWorkflow = "unused"
    /\ img = "unused"

\* No call of getProfile has been made.
GpInit ==
    /\ call = [s \in Services |-> IdleCall]
    /\ fan = [p \in FanOutNames |-> [state |-> "none", value |-> NoBody,
                                     err |-> NoErr]]
    /\ join = [state |-> "none", err |-> NoErr]
    /\ gp = [state |-> "notCalled", doc |-> NoDoc, err |-> NoErr]
    /\ reqCount = [s \in Services |-> 0]
    /\ adapterCalls = 0
    /\ rejectionLog = <<>>
    /\ settleCount = 0
    /\ lateOutcomes = {}

Init ==
    /\ env \in [token : TokenValues, baseUrl : BOOLEAN]
    /\ GpInit
    /\ FxIdle
    /\ TrIdle
    /\ OaIdle
    /\ CeIdle
    /\ IgIdle

\* The caller invokes getProfile(userId); it runs up to its first await.
GetProfile ==
    /\ gp.state = "notCalled"
    /\ Commit(StartFetch([Cur EXCEPT !.gp.state = "pending"], "profile"))

\* fetch rejects: the request to s failed at the network level.
ResponseError(s) ==
    /\ call[s].stage = "headers"
    /\ Commit(FetcherFailed(Cur, s, Err(s, "network")))

\* The status line of s arrives and response.ok is false.
ResponseNotOk(s) ==
    /\ call[s].stage = "headers"
    /\ Commit(FetcherFailed(Cur, s, Err(s, "status")))

\* The status line of s arrives and response.ok is true: the fetcher goes
\* on to response.json().
ResponseOk(s) ==
    /\ call[s].stage = "headers"
    /\ Commit([Cur EXCEPT !.call[s].stage = "body"])

\* response.json() rejects: the body of s is not JSON.
BodyError(s) ==
    /\ call[s].stage = "body"
    /\ Commit(FetcherFailed(Cur, s, Err(s, "parse")))

\* response.json() fulfils with body b.
BodyParsed(s, b) ==
    /\ call[s].stage = "body"
    /\ Commit(FetcherParsed(Cur, s, b))

Next ==
    \/ GetProfile
    \/ \E s \in Services : ResponseError(s)
    \/ \E s \in Services : ResponseNotOk(s)
    \/ \E s \in Services : ResponseOk(s)
    \/ \E s \in Services : BodyError(s)
    \/ \E s \in Services : \E b \in Bodies(s) : BodyParsed(s, b)

Spec == Init /\ [][Next]_vars

\* Every upstream HTTP call eventually responds or errors.
Responds(s) ==
    \/ ResponseError(s)
    \/ ResponseNotOk(s)
    \/ ResponseOk(s)
    \/ BodyError(s)
    \/ \E b \in Bodies(s) : BodyParsed(s, b)

LiveSpec ==
    /\ Init
    /\ [][Next]_vars
    /\ WF_vars(GetProfile)
    /\ \A s \in Services : WF_vars(Responds(s))

-----------------------------------------------------------------------------
(* Properties                                                              *)

\* getProfile has passed line 327 and evaluated the array literal.
FanOutStarted == join.state # "none"

\* The ORCID identifier and the credential as fetchGrants sees them.
OrcidKnown == Truthy(call["profile"].body.orcid)

CredentialConfigured == Truthy(env.token)

GrantsRequested == reqCount["orcid"] + reqCount["ucl"] > 0

\* The attempt of the ORCID adapter has raised an error.
OrcidAttemptFailed ==
    /\ adapterCalls > 0
    /\ \/ ~env.baseUrl
       \/ call["orcid"].stage = "rejected"
       \/ call["orcid"].stage = "resolved" /\ call["orcid"].body.shape = "badGroup"

\* C1: fetchGrants attempts the ORCID adapter if and only if an ORCID
\* identifier is known and an access credential is configured; when either
\* is missing the native fetcher is called directly and no request is ever
\* sent to the internal ORCID endpoint.
C1_OrcidAttemptedIffIdAndCredential ==
    /\ adapterCalls > 0 <=> (FanOutStarted /\ OrcidKnown /\ CredentialConfigured)
    /\ reqCount["orcid"] > 0 => (OrcidKnown /\ CredentialConfigured)
    /\ (FanOutStarted /\ ~(OrcidKnown /\ CredentialConfigured)) =>
          /\ reqCount["ucl"] = 1
          /\ reqCount["orcid"] = 0
          /\ call["orcid"].stage = "idle"

C1_Witness ==
    /\ OrcidKnown
    /\ env.token = ""
    /\ reqCount["ucl"] = 1
    /\ adapterCalls = 0
    /\ gp.state = "resolved"

\* C2: when the ORCID attempt raises an error, fetchGrants calls the native
\* fetcher and, if that succeeds, fulfils with the native body as it is:
\* not an error and not an empty list.
C2_FallbackReturnsNativeResult ==
    OrcidAttemptFailed =>
        /\ reqCount["ucl"] = 1
        /\ call["ucl"].stage = "resolved" =>
              /\ fan["grants"].state = "resolved"
              /\ fan["grants"].value = call["ucl"].body
              /\ fan["grants"].value.src = "ucl"

C2_Witness ==
    /\ call["orcid"].stage = "rejected"
    /\ call["orcid"].err.kind = "status"
    /\ call["ucl"].stage = "resolved"
    /\ fan["grants"].state = "resolved"
    /\ fan["grants"].value.shape = "ok"

\* C3: an ORCID adapter failure is never the error fetchGrants or
\* getProfile surfaces; whenever the native fetcher fails, fetchGrants
\* fails with the native fetcher's own error.
C3_NativeFailurePropagatesUnmasked ==
    /\ fan["grants"].err.src # "orcid"
    /\ gp.err.src # "orcid"
    /\ \A i \in 1..Len(rejectionLog) : rejectionLog[i].src # "orcid"
    /\ fan["grants"].state = "rejected" =>
          /\ call["ucl"].stage = "rejected"
          /\ fan["grants"].err = call["ucl"].err
    /\ call["ucl"].stage = "rejected" =>
          /\ fan["grants"].state = "rejected"
          /\ fan["grants"].err = call["ucl"].err
          /\ fan["grants"].err.src = "ucl"

C3_Witness ==
    /\ OrcidAttemptFailed
    /\ call["orcid"].stage = "rejected"
    /\ call["ucl"].stage = "rejected"
    /\ fan["grants"].state = "rejected"
    /\ gp.state = "rejected"
    /\ gp.err = call["ucl"].err

\* C4: no publications, teaching or grants request is issued before the
\* profile fetch has completed successfully; if the profile fetch fails,
\* getProfile fails with that error and none of the others is ever issued.
C4_ProfileFetchedFirst ==
    /\ (\/ \E s \in Services \ {"profile"} : reqCount[s] > 0
        \/ adapterCalls > 0
        \/ FanOutStarted) => call["profile"].stage = "resolved"
    /\ call["profile"].stage = "rejected" =>
          /\ gp.state = "rejected"
          /\ gp.err = call["profile"].err
          /\ \A s \in Services \ {"profile"} : call[s].stage = "idle"

C4_Witness ==
    /\ call["profile"].stage = "rejected"
    /\ gp.state = "rejected"
    /\ gp.err = Err("profile", "status")

\* C5: once the profile fetch has succeeded, the publications request,
\* the teaching request and the first grants request are issued in the
\* same turn: whenever one of them has been issued all three have, and at
\* the end of the turn that issues them all three are in flight.
C5_AllIssued ==
    (\/ reqCount["publications"] > 0
     \/ reqCount["teaching"] > 0
     \/ GrantsRequested
     \/ FanOutStarted) =>
        /\ reqCount["publications"] > 0
        /\ reqCount["teaching"] > 0
        /\ GrantsRequested

C5_FanOutIsConcurrent ==
    /\ []C5_AllIssued
    /\ [][(~FanOutStarted /\ FanOutStarted') =>
            /\ call["profile"].stage = "body"
            /\ InFlight(call'["publications"])
            /\ InFlight(call'["teaching"])
            /\ InFlight(call'["orcid"]) \/ InFlight(call'["ucl"])]_vars

C5_Witness ==
    /\ call["publications"].stage = "headers"
    /\ call["teaching"].stage = "headers"
    /\ call["orcid"].stage = "headers"
    /\ gp.state = "pending"

\* C6: getProfile fulfils with a document only if the profile,
\* publications, teaching and grants fetches all succeeded, and the
\* document holds their four results; if one of the three concurrent
\* fetches has failed getProfile has failed.
C6_AllOrNothing ==
    /\ gp.state = "resolved" =>
          /\ call["profile"].stage = "resolved"
          /\ \A p \in FanOutNames : fan[p].state = "resolved"
          /\ gp.doc = [profile |-> call["profile"].body,
                       publications |-> fan["publications"].value,
                       teaching |-> fan["teaching"].value,
                       grants |-> fan["grants"].value]
          /\ \A f \in DOMAIN gp.doc : gp.doc[f] # NoBody
    /\ (\E p \in FanOutNames : fan[p].state = "rejected") =>
          /\ gp.state = "rejected"
          /\ gp.doc = NoDoc

C6_Witness ==
    /\ gp.state = "rejected"
    /\ fan["publications"].state = "resolved"
    /\ fan["grants"].state = "resolved"
    /\ fan["teaching"].state = "rejected"

\* C7: when several of the concurrent fetches fail, getProfile fails with
\* exactly the error of the one that rejected first in time, and it has
\* failed as soon as that first rejection has happened, whatever the other
\* calls are doing.
C7_FirstRejectionWins ==
    Len(rejectionLog) >= 1 =>
        /\ gp.state = "rejected"
        /\ gp.err = rejectionLog[1]
        /\ join.err = rejectionLog[1]

C7_Witness ==
    /\ Len(rejectionLog) = 2
    /\ rejectionLog[1].src = "teaching"
    /\ rejectionLog[2].src = "publications"
    /\ gp.err = rejectionLog[1]
    /\ InFlight(call["ucl"])

\* C8: when one of the three concurrent fetches fails, the calls still in
\* flight are left alone: a call in flight only ever moves on by its own
\* response, one call per turn, and once getProfile has failed nothing
\* that happens afterwards changes its outcome.
C8_NoCancellation ==
    /\ [][\A s \in Services : InFlight(call[s]) =>
            \/ call'[s] = call[s]
            \/ /\ call'[s].stage \in {"body", "resolved", "rejected"}
               /\ \A r \in Services \ {s} :
                     InFlight(call[r]) => call'[r] = call[r]]_vars
    /\ [][gp.state = "rejected" => gp' = gp]_vars

C8_Witness ==
    /\ gp.state = "rejected"
    /\ gp.err.src = "publications"
    /\ lateOutcomes = {"teaching", "ucl"}
    /\ call["teaching"].stage = "resolved"
    /\ call["ucl"].stage = "resolved"

\* C9: getProfile settles exactly once, either fulfilled with the full
\* document or rejected with an error propagated from a failed fetch.
FetchErrorKinds == {"network", "status", "parse"}

C9_SettlesWithDocOrFetchError ==
    /\ settleCount <= 1
    /\ gp.state \in {"resolved", "rejected"} => settleCount = 1
    /\ gp.state = "resolved" => gp.doc # NoDoc
    /\ gp.state = "rejected" =>
          /\ gp.err.kind \in FetchErrorKinds
          /\ gp.err.src \in Services
          /\ call[gp.err.src].stage = "rejected"

\* Under the premise that every upstream call eventually responds or
\* errors, every call of getProfile eventually settles, and only once.
EventuallySettles ==
    /\ <>(gp.state \in {"resolved", "rejected"})
    /\ []( settleCount <= 1)
    /\ [][gp.state \in {"resolved", "rejected"} => gp' = gp]_vars

\* C10: no retries: each of the five services is requested at most once
\* within a call of getProfile, the adapter is called at most once, and a
\* call that has finished, failed or not, is never issued again.
C10_Bounded ==
    /\ \A s \in Services : reqCount[s] <= 1
    /\ adapterCalls <= 1
    /\ \A s \in Services : call[s].stage # "idle" <=> reqCount[s] = 1

C10_NoRetries ==
    /\ []C10_Bounded
    /\ [][\A s \in Services : call[s].stage \in {"resolved", "rejected"} =>
             /\ call'[s] = call[s]
             /\ reqCount'[s] = reqCount[s]]_vars

C10_Witness ==
    /\ call["orcid"].stage = "rejected"
    /\ call["ucl"].stage = "rejected"
    /\ call["publications"].stage = "rejected"
    /\ call["teaching"].stage = "rejected"
    /\ \A s \in Services : reqCount[s] = 1

-----------------------------------------------------------------------------
(* The upstream fetchers, one call looked at on its own                     *)
(* (fetchProfileData, fetchPublications, fetchTeaching, fetchGrantsFromUcl) *)

Fetchers == {"fetchProfileData", "fetchPublications", "fetchTeaching",
             "fetchGrantsFromUcl"}

\* Status codes an upstream response can carry, on both sides of the
\* limits of the success range.
StatusCodes == {200, 201, 204, 299, 300, 304, 400, 404, 500, 503}

StatusTexts == {"OK", "Not Found", ""}

\* What response.json() finds in the body: a JSON document or text that is
\* not JSON.
JsonDocs == {"{}", "{\"resource\":[]}", "null"}

JsonTexts == JsonDocs \cup {"<not json>"}

\* The text each fetcher puts in front of the status text of its error.
ErrorPrefix(f) ==
    CASE f = "fetchProfileData" -> "Failed to fetch profile data for user: "
      [] f = "fetchPublications" -> "Failed to fetch publications: "
      [] f = "fetchTeaching" -> "Failed to fetch teaching activities: "
      [] f = "fetchGrantsFromUcl" -> "Failed to fetch grants: "

NoResult == [state |-> "pending", value |-> "<none>", prefix |-> "",
             statusText |-> "<none>"]

\* response.ok: the status is in the range 200-299.
OkBelow400(status) == status < 400

ResponseOkOf(status) == status >= 200 /\ status < 300

\* The error thrown on a response that is not ok.
StatusError(f, text) ==
    [state |-> "rejected", value |-> "<none>", prefix |-> ErrorPrefix(f),
     statusText |-> text]

\* An error that does not come from the fetcher's own throw: fetch or
\* response.json() rejected.
ForeignError(kind) ==
    [state |-> "rejected", value |-> "<none>", prefix |-> kind,
     statusText |-> "<none>"]

FetcherInit ==
    /\ fx \in [fetcher : Fetchers, status : StatusCodes,
               statusText : StatusTexts, text : JsonTexts,
               stage : {"start"}, bodyRead : {FALSE}, result : {NoResult}]
    /\ env = [token |-> "<unset>", baseUrl |-> FALSE]
    /\ GpInit
    /\ TrIdle
    /\ OaIdle
    /\ CeIdle
    /\ IgIdle

\* The fetcher is called and runs up to `await fetch(...)`.
FxCall ==
    /\ fx.stage = "start"
    /\ fx' = [fx EXCEPT !.stage = "awaitFetch"]
    /\ UNCHANGED <<gpVars, trVars, extVars>>

\* fetch rejects: no response arrives.
FxNetworkError ==
    /\ fx.stage = "awaitFetch"
    /\ fx' = [fx EXCEPT !.stage = "done", !.result = ForeignError("network")]
    /\ UNCHANGED <<gpVars, trVars, extVars>>

\* The response arrives: `if (!response.ok) throw ...`, otherwise the
\* fetcher returns response.json().
FxResponse ==
    /\ fx.stage = "awaitFetch"
    /\ IF ResponseOkOf(fx.status)
       THEN fx' = [fx EXCEPT !.stage = "awaitJson", !.bodyRead = TRUE]
       ELSE fx' = [fx EXCEPT !.stage = "done",
                             !.result = StatusError(fx.fetcher, fx.statusText)]
    /\ UNCHANGED <<gpVars, trVars, extVars>>

\* response.json() settles.
FxJson ==
    /\ fx.stage = "awaitJson"
    /\ IF fx.text \in JsonDocs
       THEN fx' = [fx EXCEPT !.stage = "done",
                             !.result = [NoResult EXCEPT !.state = "resolved",
                                                         !.value = fx.text]]
       ELSE fx' = [fx EXCEPT !.stage = "done",
                             !.result = ForeignError("parse")]
    /\ UNCHANGED <<gpVars, trVars, extVars>>

FetcherNext ==
    \/ FxCall
    \/ FxNetworkError
    \/ FxResponse
    \/ FxJson

FetcherSpec == FetcherInit /\ [][FetcherNext]_vars

\* C11: a fetcher returns the parsed JSON body when the status is in
\* 200-299, and for every status outside 200-299 it fails with an error
\* that carries the status text of the response, without reading or
\* returning a body.
C11_BodyIffStatus2xx ==
    fx.stage = "done" =>
        /\ fx.result.state = "resolved" =>
              /\ fx.status \in 200..299
              /\ fx.text \in JsonDocs
              /\ fx.result.value = fx.text
        /\ (fx.status \in 200..299 /\ fx.text \in JsonDocs
              /\ fx.result.prefix # "network") =>
              /\ fx.result.state = "resolved"
              /\ fx.result.value = fx.text
        /\ (fx.status \notin 200..299 /\ fx.result.prefix # "network") =>
              /\ fx.result.state = "rejected"
              /\ fx.result.statusText = fx.statusText
              /\ fx.result.value = "<none>"
              /\ ~fx.bodyRead

C11_Witness ==
    /\ fx.stage = "done"
    /\ fx.fetcher = "fetchGrantsFromUcl"
    /\ fx.status = 404
    /\ fx.statusText = "Not Found"
    /\ fx.result.state = "rejected"
    /\ fx.result.statusText = "Not Found"

-----------------------------------------------------------------------------
(* transformApiData, one call looked at on its own                         *)
(*                                                                         *)
(* JavaScript values are encoded as follows.  An optional string is the    *)
(* string, or "<absent>" when the field is missing.  An optional list is   *)
(* a flag (isArray, hasUrls, hasResource) and a sequence.  An object that  *)
(* may be null carries the flag `null`.  An end date is its timestamp, or  *)
(* 0 when endDate or endDate.dateTime is missing.                          *)

Range(q) == {q[i] : i \in DOMAIN q}

\* [...new Set(urls)]: a Set keeps the first insertion of each value.
RECURSIVE SetSpread(_)
SetSpread(urls) ==
    IF urls = <<>> THEN <<>>
    ELSE LET n == Len(urls)
             d == SetSpread(SubSeq(urls, 1, n - 1))
         IN IF urls[n] \in Range(d) THEN d ELSE Append(d, urls[n])

\* The URLs pushed by `items.forEach(e => { if (e.url) urls.push(e.url) })`
\* when Array.isArray(items).
EntryUrls(isArray, items) ==
    IF ~isArray THEN <<>>
    ELSE LET kept == SelectSeq(items, LAMBDA e : Truthy(e.url))
         IN [i \in 1..Len(kept) |-> kept[i].url]

\* forEach dereferences every entry: a null entry raises a TypeError.
EntriesThrow(isArray, items) ==
    isArray /\ \E i \in 1..Len(items) : items[i].null

\* The callback of pubsApiData.resource.map.
PubThrows(pub) ==
    \/ pub.null
    \/ EntriesThrow(pub.filesIsArray, pub.files)
    \/ EntriesThrow(pub.linksIsArray, pub.links)

PubUrls(pub) ==
    (IF Truthy(pub.publicUrl) THEN <<pub.publicUrl>> ELSE <<>>)
    \o (IF Truthy(pub.doi) THEN <<"https://doi.org/" \o pub.doi>> ELSE <<>>)
    \o EntryUrls(pub.filesIsArray, pub.files)
    \o EntryUrls(pub.linksIsArray, pub.links)

\* The callback of publicationsApiData.resource.map.
MapPubKeepAll(pub) ==
    [pub EXCEPT !.hasUrls = TRUE, !.publicUrls = PubUrls(pub)]

MapPub(pub) ==
    [pub EXCEPT !.hasUrls = TRUE, !.publicUrls = SetSpread(PubUrls(pub))]

\* The callback of grantsApiData.resource.map.
NeverDefault(grant) ==
    IF Truthy(grant.publicUrl) /\ ~grant.hasUrls
    THEN [grant EXCEPT !.hasUrls = TRUE, !.publicUrls = <<grant.publicUrl>>]
    ELSE grant

NeverWrap(grant) ==
    IF ~grant.hasUrls
    THEN [grant EXCEPT !.hasUrls = TRUE, !.publicUrls = <<>>]
    ELSE grant

AlwaysWrap(grant) ==
    IF Truthy(grant.publicUrl)
    THEN [grant EXCEPT !.hasUrls = TRUE, !.publicUrls = <<grant.publicUrl>>]
    ELSE IF ~grant.hasUrls
         THEN [grant EXCEPT !.hasUrls = TRUE, !.publicUrls = <<>>]
         ELSE grant

MapGrant(grant) ==
    IF Truthy(grant.publicUrl) /\ ~grant.hasUrls
    THEN [grant EXCEPT !.hasUrls = TRUE, !.publicUrls = <<grant.publicUrl>>]
    ELSE IF ~grant.hasUrls
         THEN [grant EXCEPT !.hasUrls = TRUE, !.publicUrls = <<>>]
         ELSE grant

\* The comparator handed to grants.sort.
CmpAscending(a, b) ==
    IF a.end = 0 /\ b.end = 0 THEN 0
    ELSE IF a.end = 0 THEN 1
         ELSE IF b.end = 0 THEN -1
              ELSE a.end - b.end

CmpNullsUnequal(a, b) ==
    IF a.end = 0 THEN 1
    ELSE IF b.end = 0 THEN -1
         ELSE b.end - a.end

GrantCmp(a, b) ==
    IF a.end = 0 /\ b.end = 0 THEN 0
    ELSE IF a.end = 0 THEN 1
         ELSE IF b.end = 0 THEN -1
              ELSE b.end - a.end

\* Array.prototype.sort is stable: x goes behind every element the
\* comparator does not put after it.
InsertSorted(sorted, x) ==
    LET after == {i \in 1..Len(sorted) :
                    \A k \in i..Len(sorted) : GrantCmp(sorted[k], x) > 0}
        p == IF after = {} THEN Len(sorted) + 1
             ELSE CHOOSE i \in after : \A k \in after : i <= k
    IN SubSeq(sorted, 1, p - 1) \o <<x>> \o SubSeq(sorted, p, Len(sorted))

RECURSIVE ArraySort(_)
ArraySort(list) ==
    IF list = <<>> THEN <<>>
    ELSE LET n == Len(list)
         IN InsertSorted(ArraySort(SubSeq(list, 1, n - 1)), list[n])

\* personalWebsites.find(site => site.typeDisplayName === label)?.url || null
\* find visits the entries in order up to the first match; visiting a null
\* entry raises a TypeError.
FindThrows(sites, label) ==
    \E i \in 1..Len(sites) :
        /\ sites[i].null
        /\ \A j \in 1..(i - 1) : sites[j].null \/ sites[j].type # label

FindUrl(sites, label) ==
    LET hits == {i \in 1..Len(sites) : sites[i].type = label}
    IN IF hits = {} THEN "<null>"
       ELSE LET first == CHOOSE i \in hits : \A k \in hits : i <= k
            IN IF Truthy(sites[first].url) THEN sites[first].url ELSE "<null>"

\* profileApiData.positions?.[0]?.position || '' and the same for department
LastPosition(profile, field) ==
    IF ~profile.hasPositions \/ profile.positions = <<>> THEN ""
    ELSE LET last == profile.positions[Len(profile.positions)]
         IN IF Truthy(last[field]) THEN last[field] ELSE ""

FirstPosition(profile, field) ==
    IF ~profile.hasPositions \/ profile.positions = <<>> THEN ""
    ELSE IF Truthy(profile.positions[1][field])
         THEN profile.positions[1][field] ELSE ""

\* payload.resource || []
ResourceOf(payload) == IF payload.hasResource THEN payload.resource ELSE <<>>

\* The index of the first entry on which the map callback raises, 0 when
\* there is none; throws[i] tells whether it raises on the i-th entry.
FirstThrow(throws) ==
    LET bad == {i \in 1..Len(throws) : throws[i]}
    IN IF bad = {} THEN 0 ELSE CHOOSE i \in bad : \A k \in bad : i <= k

\* The entries of list after the callback has run on those before index k
\* (on all of them when k = 0); the callback writes to the entry it is
\* given and returns it, mapped[i] being what it makes of the i-th entry.
Written(list, k, mapped) ==
    [i \in 1..Len(list) |-> IF k = 0 \/ i < k THEN mapped[i] ELSE list[i]]

GrantThrows(grant) == grant.null

NoProfileSection == [title |-> "", affiliation |-> "", linkedIn |-> "<null>",
                     twitter |-> "<null>"]

NoTrDoc == [profile |-> NoProfileSection, publications |-> <<>>,
            grants |-> <<>>, teaching |-> <<>>]

\* transformApiData(profileApiData, pubsApiData, teachingApiData,
\* grantsApiData) on the payloads r: whether it raised, the document it
\* returned, and the payloads as the call left them.
TransformApiData(r) ==
    LET sites == IF r.profile.hasSites THEN r.profile.sites ELSE <<>>
        pubs == ResourceOf(r.publications)
        kp == FirstThrow([i \in 1..Len(pubs) |-> PubThrows(pubs[i])])
        pubsAfter == Written(pubs, kp, [i \in 1..Len(pubs) |-> MapPub(pubs[i])])
        r1 == IF r.publications.null \/ ~r.publications.hasResource THEN r
              ELSE [r EXCEPT !.publications.resource = pubsAfter]
        grants == ResourceOf(r.grants)
        kg == FirstThrow([i \in 1..Len(grants) |-> GrantThrows(grants[i])])
        grantsAfter == Written(grants, kg,
                              [i \in 1..Len(grants) |-> MapGrant(grants[i])])
        r2 == IF r.grants.null \/ ~r.grants.hasResource THEN r1
              ELSE [r1 EXCEPT !.grants.resource = grantsAfter]
        thrown(rr) == [threw |-> TRUE, doc |-> NoTrDoc, raw |-> rr]
    IN IF r.profile.null THEN thrown(r)
       ELSE IF FindThrows(sites, "LinkedIn") \/ FindThrows(sites, "X (Twitter)")
       THEN thrown(r)
       ELSE IF r.publications.null THEN thrown(r)
       ELSE IF kp # 0 THEN thrown(r1)
       ELSE IF r.grants.null THEN thrown(r1)
       ELSE IF kg # 0 THEN thrown(r2)
       ELSE IF r.teaching.null THEN thrown(r2)
       ELSE [threw |-> FALSE,
             doc |-> [profile |->
                        [title |-> FirstPosition(r.profile, "position"),
                         affiliation |-> FirstPosition(r.profile, "department"),
                         linkedIn |-> FindUrl(sites, "LinkedIn"),
                         twitter |-> FindUrl(sites, "X (Twitter)")],
                      publications |-> pubsAfter,
                      grants |-> ArraySort(grantsAfter),
                      teaching |-> ResourceOf(r.teaching)],
             raw |-> r2]

-----------------------------------------------------------------------------
(* The payloads transformApiData is tried on                               *)

\* The longest grants list sorted.
MaxGrants == 5

\* The longest grants list whose URL fields are varied.
MaxUrlGrants == 2

\* The longest files, links and personalWebsites lists.
MaxEntries == 2

\* Timestamps of end dates.
EndDates == {2019, 2020, 2023}

SeqsUpTo(S, n) == UNION {[1..k -> S] : k \in 0..n}

Grant(i, e, u, h, us) ==
    [null |-> FALSE, id |-> i, end |-> e, publicUrl |-> u, hasUrls |-> h,
     publicUrls |-> us]

Entry(u) == [null |-> FALSE, url |-> u]

Pub(i, u, d, fa, fs, la, ls) ==
    [null |-> FALSE, id |-> i, publicUrl |-> u, doi |-> d,
     filesIsArray |-> fa, files |-> fs, linksIsArray |-> la, links |-> ls,
     hasUrls |-> FALSE, publicUrls |-> <<>>]

Site(t, u) == [null |-> FALSE, type |-> t, url |-> u]

Position(p, d) == [position |-> p, department |-> d]

Profile(hp, ps, hs, ss) ==
    [null |-> FALSE, hasPositions |-> hp, positions |-> ps, hasSites |-> hs,
     sites |-> ss]

Envelope(h, list) == [null |-> FALSE, hasResource |-> h, resource |-> list]

PlainProfile ==
    Profile(TRUE, <<Position("Professor", "CASA")>>, TRUE,
            <<Site("LinkedIn", "https://l")>>)

Payloads(p, pubs, t, g) ==
    [profile |-> p, publications |-> pubs, teaching |-> t, grants |-> g]

\* The payloads tried: grants lists that differ in their end dates, grants
\* lists that differ in publicUrl and publicUrls, publications that differ
\* in their four sources of URLs, profiles that differ in positions and
\* personal websites, and payloads with a null where the code expects an
\* object.
TransformInputs ==
    LET NullGrant(i) ==
            [null |-> TRUE, id |-> i, end |-> 0, publicUrl |-> "<absent>",
             hasUrls |-> FALSE, publicUrls |-> <<>>]
        NullEntry == [null |-> TRUE, url |-> "<absent>"]
        NullPub(i) ==
            [null |-> TRUE, id |-> i, publicUrl |-> "<absent>", doi |-> "<absent>",
             filesIsArray |-> FALSE, files |-> <<>>, linksIsArray |-> FALSE,
             links |-> <<>>, hasUrls |-> FALSE, publicUrls |-> <<>>]
        NullSite == [null |-> TRUE, type |-> "<absent>", url |-> "<absent>"]
        NullProfile ==
            [null |-> TRUE, hasPositions |-> FALSE, positions |-> <<>>,
             hasSites |-> FALSE, sites |-> <<>>]
        NullEnvelope == [null |-> TRUE, hasResource |-> FALSE, resource |-> <<>>]
        \* Grants lists that differ in their end dates.
        DatedInputs ==
            {Payloads(PlainProfile, Envelope(TRUE, <<>>), Envelope(TRUE, <<>>),
                      Envelope(TRUE, [i \in DOMAIN f |->
                                         Grant(i, f[i], "https://g", FALSE, <<>>)])) :
                f \in SeqsUpTo(EndDates \cup {0}, MaxGrants)}
        \* Grants lists that differ in publicUrl and publicUrls.
        UrlLists == {<<>>, <<"https://a">>, <<"https://b", "https://a">>,
                     <<"https://g">>}
        UrlFields ==
            {f \in [u : {"<absent>", "", "https://g"}, h : BOOLEAN,
                    us : UrlLists] : f.h \/ f.us = <<>>}
        UrlInputs ==
            {Payloads(PlainProfile, Envelope(TRUE, <<>>), Envelope(TRUE, <<>>),
                      Envelope(TRUE, [i \in DOMAIN f |->
                                         Grant(i, 0, f[i].u, f[i].h, f[i].us)])) :
                f \in SeqsUpTo(UrlFields, MaxUrlGrants)}
        \* Publications that differ in their four sources of URLs.
        FileEntries == {Entry("<absent>"), Entry("https://a")}
        LinkEntries == {Entry(""), Entry("https://b"),
                        Entry("https://doi.org/10.1/x")}
        PubInputs ==
            {Payloads(PlainProfile,
                      Envelope(TRUE, <<Pub(1, u, d, fa, IF fa THEN fs ELSE <<>>,
                                           la, IF la THEN ls ELSE <<>>)>>),
                      Envelope(TRUE, <<>>), Envelope(TRUE, <<>>)) :
                u \in {"<absent>", "", "https://a"},
                d \in {"<absent>", "", "10.1/x"},
                fa \in BOOLEAN, fs \in SeqsUpTo(FileEntries, MaxEntries),
                la \in BOOLEAN, ls \in SeqsUpTo(LinkEntries, MaxEntries)}
        \* Profiles that differ in positions and personal websites, with the
        \* shapes of the teaching payload.
        PositionLists ==
            {<<>>, <<Position("Professor", "CASA")>>,
             <<Position("Lecturer", "CS"), Position("Professor", "CASA")>>,
             <<Position("<absent>", "<absent>")>>, <<Position("", "CASA")>>}
        SiteEntries == {Site("LinkedIn", "https://l"), Site("X (Twitter)", "https://t"),
                        Site("Blog", "https://w"), Site("LinkedIn", "")}
        ProfileInputs ==
            {Payloads(Profile(hp, IF hp THEN ps ELSE <<>>, hs, IF hs THEN ss ELSE <<>>),
                      Envelope(FALSE, <<>>), t, Envelope(FALSE, <<>>)) :
                hp \in BOOLEAN, ps \in PositionLists,
                hs \in BOOLEAN, ss \in SeqsUpTo(SiteEntries, MaxEntries),
                t \in {Envelope(FALSE, <<>>), Envelope(TRUE, <<>>),
                       Envelope(TRUE, <<"t1", "t2">>)}}
        \* Payloads with a null where the code expects an object.
        GoodPub == Pub(1, "https://a", "<absent>", FALSE, <<>>, FALSE, <<>>)
        GoodGrant == Grant(1, 2020, "https://g", FALSE, <<>>)
        MalformedInputs ==
            LET e == Envelope(TRUE, <<>>)
                pubsOk == Envelope(TRUE, <<GoodPub>>)
                grantsOk == Envelope(TRUE, <<GoodGrant>>)
            IN {Payloads(NullProfile, pubsOk, e, grantsOk),
                Payloads(PlainProfile, NullEnvelope, e, grantsOk),
                Payloads(PlainProfile, pubsOk, NullEnvelope, grantsOk),
                Payloads(PlainProfile, pubsOk, e, NullEnvelope),
                Payloads(Profile(TRUE, <<>>, TRUE, <<NullSite>>), pubsOk, e, grantsOk),
                Payloads(Profile(TRUE, <<>>, TRUE,
                                 <<Site("LinkedIn", "https://l"), NullSite>>),
                         pubsOk, e, grantsOk),
                Payloads(Profile(TRUE, <<>>, TRUE,
                                 <<Site("LinkedIn", "https://l"),
                                   Site("X (Twitter)", "https://t"), NullSite>>),
                         pubsOk, e, grantsOk),
                Payloads(PlainProfile, Envelope(TRUE, <<GoodPub, NullPub(2)>>), e,
                         grantsOk),
                Payloads(PlainProfile,
                         Envelope(TRUE, <<Pub(1, "https://a", "<absent>", TRUE,
                                              <<NullEntry>>, FALSE, <<>>)>>),
                         e, grantsOk),
                Payloads(PlainProfile,
                         Envelope(TRUE, <<Pub(1, "https://a", "<absent>", FALSE, <<>>,
                                              TRUE, <<Entry("https://b"), NullEntry>>)>>),
                         e, grantsOk),
                Payloads(PlainProfile, pubsOk, e,
                         Envelope(TRUE, <<GoodGrant, NullGrant(2)>>))}
    IN DatedInputs \cup UrlInputs \cup PubInputs \cup ProfileInputs
       \cup MalformedInputs

TransformInit ==
    /\ raw \in TransformInputs
    /\ raw0 = raw
    /\ out = [state |-> "none", doc |-> NoTrDoc]
    /\ out2 = [state |-> "none", doc |-> NoTrDoc]
    /\ env = [token |-> "<unset>", baseUrl |-> FALSE]
    /\ GpInit
    /\ FxIdle
    /\ OaIdle
    /\ CeIdle
    /\ IgIdle

Outcome(res) ==
    [state |-> IF res.threw THEN "threw" ELSE "returned", doc |-> res.doc]

\* transformApiData is called on the payloads.
ApplyTransform ==
    /\ out.state = "none"
    /\ LET res == TransformApiData(raw)
       IN /\ out' = Outcome(res)
          /\ raw' = res.raw
    /\ UNCHANGED <<raw0, out2, gpVars, fxVars, extVars>>

\* transformApiData is called a second time on the same payload objects.
ApplyAgain ==
    /\ out.state = "returned"
    /\ out2.state = "none"
    /\ LET res == TransformApiData(raw)
       IN /\ out2' = Outcome(res)
          /\ raw' = res.raw
    /\ UNCHANGED <<raw0, out, gpVars, fxVars, extVars>>

TransformNext ==
    \/ ApplyTransform
    \/ ApplyAgain

TransformSpec == TransformInit /\ [][TransformNext]_vars

-----------------------------------------------------------------------------
(* Properties of transformApiData                                          *)

\* The grants as they were handed in, and as the document lists them.
GrantsIn == IF raw0.grants.hasResource THEN raw0.grants.resource ELSE <<>>

GrantsOut == out.doc.grants

PubsIn == IF raw0.publications.hasResource THEN raw0.publications.resource
          ELSE <<>>

PubsOut == out.doc.publications

EndsIn == [i \in DOMAIN GrantsIn |-> GrantsIn[i].end]

IdsOut == [i \in DOMAIN GrantsOut |-> GrantsOut[i].id]

\* C13: the grants of the document are a permutation of the grants handed
\* in, ordered by end date descending, and every grant without an end date
\* comes after all grants that have one.
C13_GrantsSortedNullsLast ==
    out.state = "returned" =>
        /\ Len(GrantsOut) = Len(GrantsIn)
        /\ {GrantsOut[i].id : i \in DOMAIN GrantsOut} = DOMAIN GrantsIn
        /\ \A i \in DOMAIN GrantsOut :
              GrantsOut[i].end = GrantsIn[GrantsOut[i].id].end
        /\ \A i, j \in DOMAIN GrantsOut :
              i < j =>
                 /\ GrantsOut[i].end = 0 => GrantsOut[j].end = 0
                 /\ GrantsOut[j].end # 0 => GrantsOut[i].end >= GrantsOut[j].end

C13_Witness ==
    /\ out.state = "returned"
    /\ EndsIn = <<2020, 0, 2023, 0, 2019>>
    /\ IdsOut = <<3, 1, 5, 2, 4>>

\* C14: the sort is stable: grants without an end date keep their original
\* relative order, and so do grants with equal end dates.
C14_SortStable ==
    out.state = "returned" =>
        \A i, j \in DOMAIN GrantsOut :
            (i < j /\ GrantsOut[i].end = GrantsOut[j].end) =>
                GrantsOut[i].id < GrantsOut[j].id

C14_Witness ==
    /\ out.state = "returned"
    /\ EndsIn = <<0, 2020, 0, 2023, 2020>>
    /\ IdsOut = <<4, 2, 5, 1, 3>>

\* C15: every grant of the document has a publicUrls list, possibly empty,
\* whatever fields it arrived with.
C15_EveryGrantHasPublicUrls ==
    out.state = "returned" =>
        \A i \in DOMAIN GrantsOut : GrantsOut[i].hasUrls

C15_Witness ==
    /\ out.state = "returned"
    /\ Len(GrantsIn) = 2
    /\ GrantsIn[1].publicUrl = "<absent>" /\ ~GrantsIn[1].hasUrls
    /\ GrantsIn[2].publicUrl = "<absent>" /\ GrantsIn[2].hasUrls
    /\ \A i \in DOMAIN GrantsOut :
          GrantsOut[i].hasUrls /\ GrantsOut[i].publicUrls = GrantsIn[i].publicUrls

\* The grant of the document that came from the i-th grant handed in.
OutOf(i) ==
    GrantsOut[CHOOSE k \in DOMAIN GrantsOut : GrantsOut[k].id = i]

\* C16 as stated: a grant record with a publicUrl and no publicUrls gets
\* publicUrls equal to the one-element list of its publicUrl.
C16_AnyPublicUrlWrapped ==
    out.state = "returned" =>
        \A i \in DOMAIN GrantsIn :
            (GrantsIn[i].publicUrl # "<absent>" /\ ~GrantsIn[i].hasUrls) =>
                OutOf(i).publicUrls = <<GrantsIn[i].publicUrl>>

\* C16 as amended: a grant record with a non-empty publicUrl and no
\* publicUrls gets publicUrls equal to the one-element list of its
\* publicUrl.
C16_NonEmptyPublicUrlWrapped ==
    out.state = "returned" =>
        \A i \in DOMAIN GrantsIn :
            (GrantsIn[i].publicUrl \notin {"<absent>", ""}
                /\ ~GrantsIn[i].hasUrls) =>
                /\ OutOf(i).hasUrls
                /\ OutOf(i).publicUrls = <<GrantsIn[i].publicUrl>>

C16_Witness ==
    /\ out.state = "returned"
    /\ Len(GrantsIn) = 1
    /\ GrantsIn[1].publicUrl = "https://g"
    /\ ~GrantsIn[1].hasUrls
    /\ GrantsOut[1].publicUrls = <<"https://g">>

\* C17: a grant record that already carries publicUrls, an empty list and
\* a record that also has a publicUrl included, keeps that list unchanged
\* in contents and order, and a second normalisation gives the grants of
\* the first.
C17_PublicUrlsKept ==
    /\ out.state = "returned" =>
          \A i \in DOMAIN GrantsIn :
              GrantsIn[i].hasUrls =>
                  /\ OutOf(i).hasUrls
                  /\ OutOf(i).publicUrls = GrantsIn[i].publicUrls
    /\ out2.state # "none" =>
          /\ out2.state = "returned"
          /\ out2.doc.grants = out.doc.grants

C17_Witness ==
    /\ out2.state = "returned"
    /\ Len(GrantsIn) = 2
    /\ GrantsIn[1].hasUrls /\ GrantsIn[1].publicUrls = <<>>
    /\ GrantsIn[1].publicUrl = "https://g"
    /\ GrantsIn[2].hasUrls /\ GrantsIn[2].publicUrls = <<"https://b", "https://a">>
    /\ GrantsIn[2].publicUrl = "https://g"
    /\ out2.doc.grants = out.doc.grants

\* The URLs of the entries of a files or links list, those in skip left
\* out.
ListedUrls(isArray, items, skip) ==
    IF ~isArray THEN <<>>
    ELSE LET kept == SelectSeq(items, LAMBDA e : e.url \notin skip)
         IN [i \in 1..Len(kept) |-> kept[i].url]

\* The sequence of the four sources of URLs of a publication, a URL being
\* taken unless it is in skip.
SourceUrls(pub, skip) ==
    (IF pub.publicUrl \notin skip THEN <<pub.publicUrl>> ELSE <<>>)
    \o (IF pub.doi \notin skip THEN <<"https://doi.org/" \o pub.doi>> ELSE <<>>)
    \o ListedUrls(pub.filesIsArray, pub.files, skip)
    \o ListedUrls(pub.linksIsArray, pub.links, skip)

\* The first occurrence of every value of q, in the order of q.
FirstOccurrences(q) ==
    LET keep == {i \in DOMAIN q : \A j \in 1..(i - 1) : q[j] # q[i]}
        nth(k) == CHOOSE i \in keep : Cardinality({j \in keep : j <= i}) = k
    IN [k \in 1..Cardinality(keep) |-> q[nth(k)]]

NoDuplicates(q) == \A i, j \in DOMAIN q : i # j => q[i] # q[j]

\* What is not a present URL, and what is not a non-empty one.
Missing == {"<absent>"}

MissingOrEmpty == {"<absent>", ""}

\* C18 as stated: publicUrls of a publication is the first-occurrence
\* de-duplication of [publicUrl if present, DOI link if doi present, each
\* file URL, each link URL].
C18_DedupOfPresentUrls ==
    out.state = "returned" =>
        \A i \in DOMAIN PubsIn :
            PubsOut[i].publicUrls =
                FirstOccurrences(SourceUrls(PubsIn[i], Missing))

\* C18 as amended: publicUrls of a publication is the first-occurrence
\* de-duplication of [publicUrl if non-empty, DOI link if doi non-empty,
\* each non-empty file URL, each non-empty link URL]: no duplicates, every
\* such URL, in first-seen order.
C18_DedupOfNonEmptyUrls ==
    out.state = "returned" =>
        /\ Len(PubsOut) = Len(PubsIn)
        /\ \A i \in DOMAIN PubsIn :
              /\ PubsOut[i].hasUrls
              /\ NoDuplicates(PubsOut[i].publicUrls)
              /\ Range(PubsOut[i].publicUrls) =
                    Range(SourceUrls(PubsIn[i], MissingOrEmpty))
              /\ PubsOut[i].publicUrls =
                    FirstOccurrences(SourceUrls(PubsIn[i], MissingOrEmpty))

C18_Witness ==
    /\ out.state = "returned"
    /\ Len(PubsIn) = 1
    /\ PubsIn[1].publicUrl = "https://a"
    /\ PubsIn[1].doi = "10.1/x"
    /\ PubsIn[1].filesIsArray /\ PubsIn[1].files = <<Entry("https://a")>>
    /\ PubsIn[1].linksIsArray /\ PubsIn[1].links = <<Entry("https://b")>>
    /\ PubsOut[1].publicUrls =
          <<"https://a", "https://doi.org/10.1/x", "https://b">>

\* C19: transformApiData leaves the payloads it is given, and every record
\* inside them, as they were.
C19_InputsUnmodified == out.state # "none" => raw = raw0

\* C20: transformApiData never raises, whatever is absent or null in the
\* payloads.
C20_NeverThrows == out.state # "threw"

\* The positions and personal websites of the profile handed in.
PositionsIn ==
    IF raw0.profile.hasPositions THEN raw0.profile.positions ELSE <<>>

SitesIn == IF raw0.profile.hasSites THEN raw0.profile.sites ELSE <<>>

\* The first personal-website entry typed label, 0 when there is none.
FirstTyped(label) ==
    LET typed == {i \in DOMAIN SitesIn : SitesIn[i].type = label}
    IN IF typed = {} THEN 0 ELSE CHOOSE i \in typed : \A k \in typed : i <= k

\* A field of the first listed position, the empty string when there is no
\* position or the position lacks the field.
OfFirstPosition(field) ==
    IF PositionsIn = <<>> \/ PositionsIn[1][field] = "<absent>" THEN ""
    ELSE PositionsIn[1][field]

TitleAndAffiliationFromFirstPosition ==
    /\ out.doc.profile.title = OfFirstPosition("position")
    /\ out.doc.profile.affiliation = OfFirstPosition("department")
    /\ PositionsIn = <<>> =>
          out.doc.profile.title = "" /\ out.doc.profile.affiliation = ""

\* C24 as stated: title and affiliation are those of the first listed
\* position, the empty string without one; linkedIn and twitter are the
\* URL of the entry typed "LinkedIn" / "X (Twitter)", null without one.
C24_LinksAreUrlOfTypedEntry ==
    out.state = "returned" =>
        /\ TitleAndAffiliationFromFirstPosition
        /\ out.doc.profile.linkedIn =
              (IF FirstTyped("LinkedIn") = 0 THEN "<null>"
               ELSE SitesIn[FirstTyped("LinkedIn")].url)
        /\ out.doc.profile.twitter =
              (IF FirstTyped("X (Twitter)") = 0 THEN "<null>"
               ELSE SitesIn[FirstTyped("X (Twitter)")].url)

\* The URL of the first entry typed label when it is a non-empty one, null
\* otherwise.
NonEmptyUrlOfFirstTyped(label) ==
    IF FirstTyped(label) = 0 THEN "<null>"
    ELSE IF SitesIn[FirstTyped(label)].url \in {"<absent>", ""} THEN "<null>"
         ELSE SitesIn[FirstTyped(label)].url

\* C24 as amended: title and affiliation as stated; linkedIn and twitter
\* are the URL of the first entry typed "LinkedIn" / "X (Twitter)" when
\* that URL is non-empty, and null when there is no such entry or the
\* first one has no URL or an empty one.
C24_LinksAreNonEmptyUrlOfFirstTypedEntry ==
    out.state = "returned" =>
        /\ TitleAndAffiliationFromFirstPosition
        /\ out.doc.profile.linkedIn = NonEmptyUrlOfFirstTyped("LinkedIn")
        /\ out.doc.profile.twitter = NonEmptyUrlOfFirstTyped("X (Twitter)")

C24_Witness ==
    /\ out.state = "returned"
    /\ PositionsIn = <<Position("Lecturer", "CS"), Position("Professor", "CASA")>>
    /\ SitesIn = <<Site("Blog", "https://w"), Site("LinkedIn", "https://l")>>
    /\ out.doc.profile.title = "Lecturer"
    /\ out.doc.profile.affiliation = "CS"
    /\ out.doc.profile.linkedIn = "https://l"
    /\ out.doc.profile.twitter = "<null>"

\* The step in which the ORCID attempt of fetchGrants fails: the request
\* to the internal endpoint errors, is answered with a non-2xx status or
\* with a body the adapter raises on, or cannot be sent at all.
OrcidFailsInStep ==
    \/ /\ InFlight(call["orcid"])
       /\ \/ call'["orcid"].stage = "rejected"
          \/ /\ call'["orcid"].stage = "resolved"
             /\ call'["orcid"].body.shape = "badGroup"
    \/ /\ adapterCalls' = adapterCalls + 1
       /\ reqCount'["orcid"] = reqCount["orcid"]

\* C25: whenever the ORCID attempt fails the native grants request is
\* issued in the same turn, whether or not the join has already rejected,
\* and once getProfile has settled nothing changes its result.
C25_FallbackIssuedWhateverTheJoin ==
    [][/\ OrcidFailsInStep =>
             /\ reqCount["ucl"] = 0
             /\ reqCount'["ucl"] = 1
             /\ call'["ucl"].stage = "headers"
       /\ gp.state \in {"resolved", "rejected"} => gp' = gp]_vars

C25_Witness ==
    /\ gp.state = "rejected"
    /\ gp.err = Err("publications", "status")
    /\ call["orcid"].stage = "rejected"
    /\ "orcid" \in lateOutcomes
    /\ reqCount["ucl"] = 1
    /\ call["ucl"].stage = "resolved"
    /\ "ucl" \in lateOutcomes

-----------------------------------------------------------------------------
(* The ORCID funding adapter: fetchGrantsFromOrcid after response.json()   *)
(* and transformOrcidFundingToUclGrants                                    *)
(*                                                                         *)
(* A decimal string is the sequence of its digits.  A part of an ORCID     *)
(* date (year, month, day) is absent, or an object that has a value or     *)
(* has none.                                                               *)

NoPart == [present |-> FALSE, hasValue |-> FALSE, digits |-> <<>>]

ValuelessPart == [present |-> TRUE, hasValue |-> FALSE, digits |-> <<>>]

PartOf(digits) == [present |-> TRUE, hasValue |-> TRUE, digits |-> digits]

DateObj(y, m, d) == [null |-> FALSE, year |-> y, month |-> m, day |-> d]

NullDateObj == [null |-> TRUE, year |-> NoPart, month |-> NoPart,
                day |-> NoPart]

\* parseInt(digits, 10)
RECURSIVE ParseInt(_)
ParseInt(digits) ==
    IF digits = <<>> THEN 0
    ELSE LET n == Len(digits)
         IN 10 * ParseInt(SubSeq(digits, 1, n - 1)) + digits[n]

\* digits.padStart(2, '0')
PadStart(digits) ==
    [i \in 1..(2 - Len(digits)) |-> 0] \o digits

\* String(part.value).padStart(2, '0') when the part is there, '01' when
\* it is not; a part without a value gives the text "undefined", which is
\* no sequence of digits: NotDigits.
NotDigits == <<-1>>

DefaultsToZero(part) ==
    IF ~part.present THEN <<0, 0>>
    ELSE IF ~part.hasValue THEN NotDigits
         ELSE PadStart(part.digits)

TwoDigits(part) ==
    IF ~part.present THEN <<0, 1>>
    ELSE IF ~part.hasValue THEN NotDigits
         ELSE PadStart(part.digits)

\* new Date(`${year}-${month}-${day}`) is a valid time when the text is a
\* four-digit year, a two-digit month and a two-digit day of the calendar;
\* toISOString raises a RangeError on an invalid time.
ValidTime(year, month, day) ==
    /\ Len(year) = 4
    /\ month # NotDigits /\ Len(month) = 2 /\ ParseInt(month) \in 1..12
    /\ day # NotDigits /\ Len(day) = 2 /\ ParseInt(day) \in 1..31

NoTime == [y |-> 0, m |-> 0, d |-> 0]

NoDate == [threw |-> FALSE, null |-> TRUE, year |-> 0, dateTime |-> NoTime]

DateThrew == [threw |-> TRUE, null |-> TRUE, year |-> 0, dateTime |-> NoTime]

\* if (!dateObj || !dateObj.year?.value) return null
HasNoYear(dateObj) ==
    \/ dateObj.null
    \/ ~dateObj.year.present
    \/ ~dateObj.year.hasValue
    \/ dateObj.year.digits = <<>>

ConstructDate(dateObj) ==
    IF HasNoYear(dateObj) THEN NoDate
    ELSE LET year == dateObj.year.digits
             month == TwoDigits(dateObj.month)
             day == TwoDigits(dateObj.day)
         IN IF ~ValidTime(year, month, day) THEN DateThrew
            ELSE [threw |-> FALSE, null |-> FALSE, year |-> ParseInt(year),
                  dateTime |-> [y |-> ParseInt(year), m |-> ParseInt(month),
                                d |-> ParseInt(day)]]

\* A funding summary of an ORCID record; undef marks the undefined that
\* flatMap leaves for a group without a funding-summary list.
Funding(title, start, end, url, ext) ==
    [undef |-> FALSE, title |-> title, start |-> start, end |-> end,
     url |-> url, ext |-> ext]

UndefinedFunding ==
    [undef |-> TRUE, title |-> "<absent>", start |-> NullDateObj,
     end |-> NullDateObj, url |-> "<absent>", ext |-> <<>>]

\* funding.url?.value followed by the external-id-url values, the empty
\* and the missing ones left out.
FundingUrls(funding) ==
    (IF Truthy(funding.url) THEN <<funding.url>> ELSE <<>>)
    \o SelectSeq(funding.ext, Truthy)

\* The callback of orcidFundingArray.map.
FundingThrows(funding) ==
    \/ funding.undef
    \/ ConstructDate(funding.start).threw
    \/ ConstructDate(funding.end).threw

MapFunding(funding) ==
    [title |-> IF Truthy(funding.title) THEN funding.title
               ELSE "No Title Available",
     startDate |-> ConstructDate(funding.start),
     endDate |-> ConstructDate(funding.end),
     publicUrls |-> SetSpread(FundingUrls(funding))]

NoOaGrants == [threw |-> FALSE, resource |-> <<>>]

OaThrew == [threw |-> TRUE, resource |-> <<>>]

TransformOrcidFundingToUclGrants(isArray, fundings) ==
    IF ~isArray THEN NoOaGrants
    ELSE IF \E i \in 1..Len(fundings) : FundingThrows(fundings[i])
         THEN OaThrew
         ELSE [threw |-> FALSE,
               resource |-> [i \in 1..Len(fundings) |-> MapFunding(fundings[i])]]

\* A group of an ORCID record's fundings.
Group(hasList, list) == [null |-> FALSE, hasList |-> hasList, list |-> list]

NullGroup == [null |-> TRUE, hasList |-> FALSE, list |-> <<>>]

\* What the flatMap callback group => group['funding-summary'] adds to the
\* flattened list: the entries of an array, anything else as one entry.
FirstOfGroup(group) ==
    IF ~group.hasList THEN <<UndefinedFunding>>
    ELSE IF group.list = <<>> THEN <<>> ELSE <<group.list[1]>>

SummariesOf(group) ==
    IF ~group.hasList THEN <<UndefinedFunding>> ELSE group.list

RECURSIVE FlatMap(_)
FlatMap(groups) ==
    IF groups = <<>> THEN <<>>
    ELSE LET n == Len(groups)
         IN FlatMap(SubSeq(groups, 1, n - 1)) \o SummariesOf(groups[n])

\* An ORCID record: null, or an object in which the first `depth` of
\* activities-summary, fundings and group are there.
OrcidRecord(depth, groups) ==
    [null |-> FALSE, depth |-> depth, groups |-> groups]

NullOrcidRecord == [null |-> TRUE, depth |-> 0, groups |-> <<>>]

\* orcidProfile?.['activities-summary']?.fundings?.group || []
FundingGroups(orcidProfile) ==
    IF orcidProfile.null \/ orcidProfile.depth < 3 THEN <<>>
    ELSE orcidProfile.groups

\* fetchGrantsFromOrcid from `await response.json()` on.
GrantsOfRecord(orcidProfile) ==
    LET fundingGroups == FundingGroups(orcidProfile)
    IN IF \E g \in 1..Len(fundingGroups) : fundingGroups[g].null
       THEN OaThrew
       ELSE TransformOrcidFundingToUclGrants(TRUE, FlatMap(fundingGroups))

-----------------------------------------------------------------------------
(* The ORCID records the adapter is tried on                               *)

\* The most groups in a record, the most summaries in a group, the most
\* external ids of a summary.
MaxGroups == 3

MaxSummaries == 2

MaxExtIds == 2

\* The records tried: one summary with every shape of start date and of
\* end date, one summary with every combination of url and external-id
\* urls, records of up to MaxGroups groups, and records in which the path
\* to the groups breaks off.
OrcidRecords ==
    LET YearParts == {NoPart, ValuelessPart, PartOf(<<>>), PartOf(<<2, 0, 2, 0>>),
                      PartOf(<<1, 9, 9, 9>>)}
        MonthParts == {NoPart, ValuelessPart, PartOf(<<3>>), PartOf(<<0, 3>>),
                       PartOf(<<1, 1>>)}
        DayParts == {NoPart, ValuelessPart, PartOf(<<7>>), PartOf(<<2, 5>>)}
        DateObjs ==
            {NullDateObj} \cup
            {DateObj(y, m, d) : y \in YearParts, m \in MonthParts, d \in DayParts}
        PlainDate == DateObj(PartOf(<<2, 0, 2, 0>>), NoPart, NoPart)
        OneFunding(f) == OrcidRecord(3, <<Group(TRUE, <<f>>)>>)
        \* One summary with every shape of start date and of end date.
        DateRecords ==
            {OneFunding(Funding("A", d, NullDateObj, "<absent>", <<>>)) : d \in DateObjs}
            \cup
            {OneFunding(Funding("A", PlainDate, d, "<absent>", <<>>)) : d \in DateObjs}
        \* One summary with every combination of url and external-id urls.
        UrlRecords ==
            {OneFunding(Funding(t, NullDateObj, NullDateObj, u, ext)) :
                t \in {"A", "", "<absent>"},
                u \in {"<absent>", "https://f"},
                ext \in SeqsUpTo({"<absent>", "", "https://f", "https://e"}, MaxExtIds)}
        TitledFundings ==
            {Funding(t, NullDateObj, PlainDate, "<absent>", <<>>) :
                t \in {"A", "B"}}
        GroupShapes ==
            {NullGroup, Group(FALSE, <<>>)} \cup
            {Group(TRUE, l) : l \in SeqsUpTo(TitledFundings, MaxSummaries)}
        \* Records of up to MaxGroups groups, and records in which the path to the
        \* groups breaks off.
        GroupRecords ==
            {OrcidRecord(3, gs) : gs \in SeqsUpTo(GroupShapes, MaxGroups)}
            \cup {OrcidRecord(k, <<>>) : k \in 0..2}
            \cup {NullOrcidRecord}
    IN DateRecords \cup UrlRecords \cup GroupRecords

OrcidInit ==
    /\ oa \in {[record |-> r, state |-> "none", resource |-> <<>>] :
                 r \in OrcidRecords}
    /\ env = [token |-> "<unset>", baseUrl |-> FALSE]
    /\ GpInit
    /\ FxIdle
    /\ TrIdle
    /\ CeIdle
    /\ IgIdle

\* The adapter runs on the record the internal endpoint answered with.
RunAdapter ==
    /\ oa.state = "none"
    /\ LET r == GrantsOfRecord(oa.record)
       IN oa' = [oa EXCEPT !.state = IF r.threw THEN "threw" ELSE "returned",
                           !.resource = r.resource]
    /\ UNCHANGED <<gpVars, fxVars, trVars, ceVars, igVars>>

OrcidSpec == OrcidInit /\ [][RunAdapter]_vars

-----------------------------------------------------------------------------
(* Properties of the ORCID funding adapter                                 *)

AdapterRan == oa.state # "none"

GroupsIn == IF oa.record.null \/ oa.record.depth < 3 THEN <<>>
            ELSE oa.record.groups

\* The path to the groups breaks off, or a group has no funding-summary
\* list, and every other group is a well-formed one without summaries.
MalformedGroupsOnly ==
    /\ \/ oa.record.null
       \/ oa.record.depth < 3
       \/ \E g \in DOMAIN GroupsIn : ~GroupsIn[g].null /\ ~GroupsIn[g].hasList
    /\ \A g \in DOMAIN GroupsIn :
          ~GroupsIn[g].null /\ GroupsIn[g].list = <<>>

\* C21: a record whose activities-summary, fundings or group is missing,
\* or whose group has no funding-summary list, makes fetchGrantsFromOrcid
\* return an empty grants list and not raise.
C21_MalformedGroupGivesEmptyList ==
    (AdapterRan /\ MalformedGroupsOnly) =>
        (oa.state = "returned" /\ oa.resource = <<>>)

\* Every group of the record has a funding-summary list.
GroupsWellFormed ==
    \A g \in DOMAIN GroupsIn : ~GroupsIn[g].null /\ GroupsIn[g].hasList

\* The number of summaries in the groups before the g-th.
RECURSIVE SummariesBefore(_)
SummariesBefore(g) ==
    IF g <= 1 THEN 0
    ELSE SummariesBefore(g - 1) + Len(GroupsIn[g - 1].list)

TitleShown(title) ==
    IF title \in {"<absent>", ""} THEN "No Title Available" ELSE title

\* C22: the adapter returns one grant per funding summary over all
\* groups, in group order and within a group in summary order.
C22_OneGrantPerSummaryInOrder ==
    (AdapterRan /\ GroupsWellFormed /\ oa.state = "returned") =>
        /\ Len(oa.resource) = SummariesBefore(Len(GroupsIn) + 1)
        /\ \A g \in DOMAIN GroupsIn :
              \A i \in DOMAIN GroupsIn[g].list :
                  oa.resource[SummariesBefore(g) + i].title
                      = TitleShown(GroupsIn[g].list[i].title)

C22_Witness ==
    /\ oa.state = "returned"
    /\ Len(GroupsIn) = 2
    /\ GroupsIn[1].hasList /\ Len(GroupsIn[1].list) = 1
    /\ GroupsIn[1].list[1].title = "B"
    /\ GroupsIn[2].hasList /\ Len(GroupsIn[2].list) = 1
    /\ GroupsIn[2].list[1].title = "A"
    /\ Len(oa.resource) = 2
    /\ oa.resource[1].title = "B"
    /\ oa.resource[2].title = "A"

\* A date object that is absent or has no year.
WithoutYear(dateObj) ==
    \/ dateObj.null
    \/ ~dateObj.year.present
    \/ ~dateObj.year.hasValue
    \/ dateObj.year.digits = <<>>

\* Every month and day that is given has a value.
PartsHaveValues(dateObj) ==
    /\ dateObj.month.present => dateObj.month.hasValue
    /\ dateObj.day.present => dateObj.day.hasValue

\* The number a part stands for, 1 when the part is absent.
PartOrFirst(part) == IF part.present THEN ParseInt(part.digits) ELSE 1

\* What C23 says of the date built from dateObj.
BuiltFrom(date, dateObj) ==
    /\ ~date.threw
    /\ date.null <=> WithoutYear(dateObj)
    /\ ~date.null =>
          /\ date.year = ParseInt(dateObj.year.digits)
          /\ date.dateTime = [y |-> ParseInt(dateObj.year.digits),
                              m |-> PartOrFirst(dateObj.month),
                              d |-> PartOrFirst(dateObj.day)]

-----------------------------------------------------------------------------
(* The ORCID caching endpoint, GET /api/orcid/:orcidId, and the client     *)
(* that calls it (fetchGrantsFromOrcid inside fetchGrants)                 *)
(*                                                                         *)
(* An ORCID iD is the sequence of its characters.                          *)

DigitChars == {"0", "1", "2", "3", "4", "5", "6", "7", "8", "9"}

\* /^\d{4}-\d{4}-\d{4}-\d{3}[\dX]$/.test(orcidId)
UnanchoredFormat(id) ==
    /\ Len(id) >= 19
    /\ \A i \in 1..19 :
          IF i \in {5, 10, 15} THEN id[i] = "-"
          ELSE IF i = 19 THEN id[i] \in DigitChars \cup {"X"}
               ELSE id[i] \in DigitChars

OrcidIdFormat(id) ==
    /\ Len(id) = 19
    /\ \A i \in 1..19 :
          IF i \in {5, 10, 15} THEN id[i] = "-"
          ELSE IF i = 19 THEN id[i] \in DigitChars \cup {"X"}
               ELSE id[i] \in DigitChars

IdDigits == <<"0", "0", "0", "0", "-", "0", "0", "0", "2", "-",
              "1", "8", "2", "5", "-", "0", "0", "9", "7">>

IdCheckX == <<"0", "0", "0", "0", "-", "0", "0", "0", "2", "-",
              "1", "6", "9", "4", "-", "2", "3", "3", "X">>

IdLowerX == <<"0", "0", "0", "0", "-", "0", "0", "0", "2", "-",
              "1", "6", "9", "4", "-", "2", "3", "3", "x">>

\* The iDs profiles carry, and those of them that have a cache file name.
RequestIds == {IdDigits, IdCheckX, IdDigits \o <<"7">>, IdLowerX}

CacheKeys == {id \in RequestIds : OrcidIdFormat(id)}

\* The records the ORCID API answers with; it may answer differently at
\* different times.
Records == {"recordA", "recordB"}

\* The content of a cache file: no such file, a file that writeFile has
\* opened (and so emptied) and not yet filled, or a record.
NoFile == "<none>"

Truncated == "<truncated>"

\* The most requests made to the endpoint.
MaxRequests == 3

NoRequest ==
    [id |-> <<>>, pc |-> "idle", late |-> FALSE, readCache |-> FALSE,
     apiCalls |-> 0, fetched |-> NoFile, fetchFailed |-> FALSE,
     wrote |-> FALSE, status |-> 0, body |-> NoFile, client |-> "none",
     native |-> FALSE]

\* fetchGrantsFromOrcid raises on a non-2xx status of the endpoint and on
\* a body that is not JSON.
AdapterRaises(code, body) == ~ResponseOkOf(code) \/ body \notin Records

\* res.status(code).json(...) or res.send(...): the handler has answered.
\* The answer reaches fetchGrantsFromOrcid, and fetchGrants catches what
\* that raises and calls the native grants fetcher; nothing of this is
\* seen by the endpoint, so it is part of the same step.
Respond(q, code, body) ==
    [q EXCEPT !.pc = "done", !.status = code, !.body = body,
              !.client = IF AdapterRaises(code, body) THEN "raised"
                         ELSE "parsed",
              !.native = /\ AdapterRaises(code, body)
                         /\ CatchOrcid("error") = "fallback"]

\* The cache after getOrcidProfileWithToken has failed: the catch block
\* answers 500 and writes nothing.
CacheTheFailure(c, id) == [c EXCEPT ![id] = Truncated]

CacheOnFailure(c, id) == c

\* getOrcidProfileWithToken(orcidId) up to its first await: it raises when
\* ORCID_ACCESS_TOKEN is not set, otherwise the request to the ORCID API
\* is on its way.
CacheMiss(q) ==
    IF ~Truthy(env.token)
    THEN Respond([q EXCEPT !.fetchFailed = TRUE], 500, "error")
    ELSE [q EXCEPT !.pc = "fetching", !.apiCalls = @ + 1]

CeInit ==
    /\ cacheFile = [id \in CacheKeys |-> NoFile]
    /\ req = [r \in 1..MaxRequests |-> NoRequest]
    /\ written = {}
    /\ env \in [token : TokenValues, baseUrl : {TRUE}]
    /\ GpInit
    /\ FxIdle
    /\ TrIdle
    /\ OaIdle
    /\ IgIdle

\* A request for id arrives: the handler tests the format and, when it
\* passes, starts reading the cache file.
Arrive(r, id) ==
    /\ req[r].pc = "idle"
    /\ \A k \in 1..(r - 1) : req[k].pc # "idle"
    /\ LET q == [req[r] EXCEPT !.id = id, !.late = id \in written]
       IN req' = [req EXCEPT ![r] =
                    IF ~OrcidIdFormat(id)
                    THEN Respond(q, 400, "error")
                    ELSE [q EXCEPT !.pc = "reading", !.readCache = TRUE]]
    /\ UNCHANGED <<cacheFile, written>>
    /\ UNCHANGED <<gpVars, fxVars, trVars, oaVars, igVars>>

\* readFile completes with what the file holds: the handler sends it.
\* When there is no file readFile fails with ENOENT: a cache miss.
ReadDone(r) ==
    /\ req[r].pc = "reading"
    /\ req' = [req EXCEPT ![r] =
                 IF cacheFile[req[r].id] = NoFile THEN CacheMiss(req[r])
                 ELSE Respond(req[r], 200, cacheFile[req[r].id])]
    /\ cacheFile' = IF cacheFile[req[r].id] = NoFile /\ ~Truthy(env.token)
                    THEN CacheOnFailure(cacheFile, req[r].id)
                    ELSE cacheFile
    /\ UNCHANGED written
    /\ UNCHANGED <<gpVars, fxVars, trVars, oaVars, igVars>>

\* readFile fails with an error other than ENOENT: logged, and treated as
\* a cache miss.
ReadError(r) ==
    /\ req[r].pc = "reading"
    /\ req' = [req EXCEPT ![r] = CacheMiss(req[r])]
    /\ cacheFile' = IF ~Truthy(env.token)
                    THEN CacheOnFailure(cacheFile, req[r].id)
                    ELSE cacheFile
    /\ UNCHANGED written
    /\ UNCHANGED <<gpVars, fxVars, trVars, oaVars, igVars>>

\* The ORCID API answers with a record: writeFile is called; it opens the
\* cache file, which empties it, or fails to open it.
FetchOk(r, record, opened) ==
    /\ req[r].pc = "fetching"
    /\ IF opened
       THEN /\ req' = [req EXCEPT ![r] = [@ EXCEPT !.pc = "writing",
                                                   !.fetched = record,
                                                   !.wrote = TRUE]]
            /\ cacheFile' = [cacheFile EXCEPT ![req[r].id] = Truncated]
       ELSE /\ req' = [req EXCEPT ![r] =
                         Respond([@ EXCEPT !.fetched = record], 500, "error")]
            /\ cacheFile' = cacheFile
    /\ UNCHANGED written
    /\ UNCHANGED <<gpVars, fxVars, trVars, oaVars, igVars>>

\* The request to the ORCID API fails, or is answered with a non-2xx
\* status.
FetchFail(r) ==
    /\ req[r].pc = "fetching"
    /\ req' = [req EXCEPT ![r] =
                 Respond([@ EXCEPT !.fetchFailed = TRUE], 500, "error")]
    /\ cacheFile' = CacheOnFailure(cacheFile, req[r].id)
    /\ UNCHANGED written
    /\ UNCHANGED <<gpVars, fxVars, trVars, oaVars, igVars>>

\* writeFile completes: the file holds the record, which is then sent.
WriteDone(r) ==
    /\ req[r].pc = "writing"
    /\ cacheFile' = [cacheFile EXCEPT ![req[r].id] = req[r].fetched]
    /\ written' = written \cup {req[r].id}
    /\ req' = [req EXCEPT ![r] = Respond(@, 200, req[r].fetched)]
    /\ UNCHANGED <<gpVars, fxVars, trVars, oaVars, igVars>>

\* writeFile fails after it has opened the file.
WriteFail(r) ==
    /\ req[r].pc = "writing"
    /\ req' = [req EXCEPT ![r] = Respond(@, 500, "error")]
    /\ UNCHANGED <<cacheFile, written>>
    /\ UNCHANGED <<gpVars, fxVars, trVars, oaVars, igVars>>

CeNext ==
    \/ \E r \in 1..MaxRequests, id \in RequestIds : Arrive(r, id)
    \/ \E r \in 1..MaxRequests : ReadDone(r)
    \/ \E r \in 1..MaxRequests : ReadError(r)
    \/ \E r \in 1..MaxRequests, record \in Records, opened \in BOOLEAN :
          FetchOk(r, record, opened)
    \/ \E r \in 1..MaxRequests : FetchFail(r)
    \/ \E r \in 1..MaxRequests : WriteDone(r)
    \/ \E r \in 1..MaxRequests : WriteFail(r)

CacheSpec == CeInit /\ [][CeNext]_vars

-----------------------------------------------------------------------------
(* Properties of the ORCID caching endpoint                                *)

Requests == 1..MaxRequests

\* The iDs requested that are not of the form NNNN-NNNN-NNNN-NNN[N|X].
MalformedIds == {IdDigits \o <<"7">>, IdLowerX}

\* C26: a request for an iD that fails the format check is answered 400
\* without the cache being read or written and without a call of the
\* ORCID API; the adapter raises on the answer and fetchGrants falls back
\* to the native grants fetcher.
C26_MalformedIdFallsBackToNative ==
    \A r \in Requests :
        (req[r].pc # "idle" /\ req[r].id \in MalformedIds) =>
            /\ req[r].pc = "done"
            /\ req[r].status = 400
            /\ ~req[r].readCache
            /\ req[r].apiCalls = 0
            /\ ~req[r].wrote
            /\ req[r].client = "raised"
            /\ req[r].native

C26_Witness ==
    \E r \in Requests :
        /\ req[r].id = IdLowerX
        /\ req[r].status = 400
        /\ req[r].client = "raised"
        /\ req[r].native
        /\ \E k \in Requests : req[k].id = IdCheckX /\ req[k].status = 200

\* C27: a request that arrives after a record for its iD has been written
\* to the cache is answered with a cached record, without a call of the
\* ORCID API and without the cache entry being written.
C27_LaterRequestsServedFromCache ==
    \A r \in Requests :
        req[r].late =>
            /\ req[r].apiCalls = 0
            /\ ~req[r].wrote
            /\ req[r].pc = "done" =>
                  /\ req[r].status = 200
                  /\ req[r].body \in Records

\* C28: the cache changes only in a step of a request whose ORCID API
\* fetch has succeeded, and a completed write leaves exactly the record
\* that request fetched, which is also what it is answered with; a request
\* whose fetch fails, a missing access token included, is answered 500 and
\* the cache stays as it was.
C28_OnlyFetchedRecordsAreCached ==
    [][/\ \A id \in CacheKeys :
             cacheFile'[id] # cacheFile[id] =>
                \E r \in Requests :
                    /\ req'[r] # req[r]
                    /\ req[r].id = id
                    /\ req[r].apiCalls = 1
                    /\ ~req'[r].fetchFailed
                    /\ req'[r].fetched \in Records
                    /\ cacheFile'[id] \in Records =>
                          /\ cacheFile'[id] = req'[r].fetched
                          /\ req'[r].status = 200
                          /\ req'[r].body = req'[r].fetched
       /\ \A r \in Requests :
             req'[r].fetchFailed =>
                /\ req'[r].status = 500
                /\ ~req'[r].wrote
                /\ ~req[r].fetchFailed => cacheFile' = cacheFile
                /\ ~Truthy(env.token) => req'[r].apiCalls = 0]_vars

C28_Witness ==
    \E r, k \in Requests :
        /\ req[r].id = IdDigits
        /\ req[r].fetchFailed
        /\ req[r].apiCalls = 1
        /\ req[r].status = 500
        /\ cacheFile[IdDigits] = NoFile
        /\ req[k].id = IdCheckX
        /\ req[k].fetched = "recordB"
        /\ req[k].status = 200
        /\ cacheFile[IdCheckX] = "recordB"


\* ---------------------------------------------------------------------
\* The image generation endpoint, POST /api/generate/image.
\*
\* A workflow is a function from node ids to the one input of the node
\* that the handler touches: the seed of a sampler node, the text of a
\* prompt node.  Values are pairs <<kind, n>>, so that the text of one
\* request can be told from the text of another and from the text the
\* workflow file came with.

\* const maxAttempts = 120
maxAttempts == 120

MaxImageRequests == 2

\* A missing, null or empty prompt text.
Falsy == <<"", 0>>

\* comfyWorkflow = null: the workflow file could not be loaded.
NoWorkflow == [n \in {"<null>"} |-> Falsy]

\* What the startup code can leave in comfyWorkflowFile and comfyWorkflow:
\* the default workflow (complete, without its seed node, without its
\* positive prompt node), the fluxdev workflow, or nothing.
LoadedWorkflows ==
    LET Workflow(ids) ==
            [n \in ids |-> IF n \in {"3", "45"} THEN <<"seed", 0>> ELSE <<"template", 0>>]
    IN  { <<"comfyui-workflow.json", Workflow({"3", "6", "7"})>>,
          <<"comfyui-workflow.json", Workflow({"6", "7"})>>,
          <<"comfyui-workflow.json", Workflow({"3", "7"})>>,
          <<"comfyui-fluxdev.json", Workflow({"43", "45"})>>,
          <<"<null>", NoWorkflow>> }

\* The request bodies of request r: no prompt object, or a prompt object
\* whose positive and negative texts are absent or the request's own.
Prompts(r) ==
    { p \in [object : BOOLEAN, positive : {Falsy, <<"positive", r>>}, negative : {Falsy, <<"negative", r>>}] :
        \/ p.object /\ (p.positive # Falsy \/ p.negative # Falsy)
        \/ ~p.object /\ p.positive = Falsy /\ p.negative = Falsy }

\* The node ids the handler uses for the loaded workflow file.
NodeIds(file) ==
    IF file = "comfyui-fluxdev.json"
    THEN [positive |-> "43", negative |-> "<null>", seed |-> "45"]
    ELSE [positive |-> "6", negative |-> "7", seed |-> "3"]

\* The writes of the handler into the object `workflow`: the seed if the
\* seed node exists, then the positive text if its node exists, then the
\* negative text if one was given and its node exists.  Without a
\* positive node the handler answers after the seed was written.
Prepare(workflow, file, prompt, randomSeed) ==
    LET ids == NodeIds(file)
        seeded == IF ids.seed \in DOMAIN workflow
                  THEN [workflow EXCEPT ![ids.seed] = <<"seed", randomSeed>>]
                  ELSE workflow
        positive == IF ids.positive \in DOMAIN seeded
                    THEN [seeded EXCEPT ![ids.positive] = prompt.positive]
                    ELSE seeded
    IN  IF ids.positive \notin DOMAIN seeded THEN seeded
        ELSE IF prompt.negative # Falsy /\ ids.negative # "<null>" /\ ids.negative \in DOMAIN positive
        THEN [positive EXCEPT ![ids.negative] = prompt.negative]
        ELSE positive

\* The same handler writing into the loaded object itself.
WriteThrough(loaded, prepared) == prepared

\* workflow = JSON.parse(JSON.stringify(comfyWorkflow)): the writes go to
\* a copy, and the loaded object stays as it was.
DeepCopy(loaded, prepared) == loaded

\* A loop that polls once more than maxAttempts times.
LoopInclusive(i) == i <= maxAttempts

\* for (let i = 0; i < maxAttempts; i++)
LoopContinues(i) == i < maxAttempts

\* res.status(code).json(...) or res.json(...), after which the handler
\* returns.  The catch block of the handler answers an error in the
\* queueing or in a poll with 500; last is then "threw".
Reply(q, code) ==
    [q EXCEPT !.pc = "done", !.status = code, !.responses = @ + 1, !.i = 0]

\* After the loop: the image URL, or 504 'Image generation timed out.'
AfterLoop(q) ==
    LET e == [q EXCEPT !.exhausted = ~LoopContinues(q.i)]
    IN  IF e.imageUrl THEN Reply(e, 200) ELSE Reply(e, 504)

\* The loop test, at loop entry and after each iteration.
LoopTest(q) ==
    IF LoopContinues(q.i) THEN [q EXCEPT !.pc = "sleeping"] ELSE AfterLoop(q)

\* No request has been made.  Of a request, pc is where its handler
\* stands, workflow the body it sent to ComfyUI, promptId whether it got
\* one, i the loop variable (0 outside the loop), last the outcome of the
\* last poll, exhausted whether the loop ended by its bound, and responses
\* the number of responses sent.
ImageInit ==
    /\ comfyUiUrl \in BOOLEAN
    /\ \E loaded \in LoadedWorkflows :
        comfyWorkflowFile = loaded[1] /\ comfyWorkflow = loaded[2]
    /\ img = [r \in 1 .. MaxImageRequests |->
                 [pc |-> "idle", prompt |-> [object |-> FALSE, positive |-> Falsy, negative |-> Falsy],
                  workflow |-> NoWorkflow, promptId |-> FALSE, i |-> 0, last |-> "none",
                  imageUrl |-> FALSE, exhausted |-> FALSE, status |-> 0, responses |-> 0]]
    /\ env = [token |-> "<unset>", baseUrl |-> FALSE]
    /\ GpInit
    /\ FxIdle
    /\ TrIdle
    /\ OaIdle
    /\ CeIdle

\* A poll reads and writes only the locals of its request, so the polls
\* and queue replies of two requests commute; the model completes the I/O
\* of the oldest unfinished request first.  Requests arrive, and prepare
\* their workflow, at any moment of the requests before them.
\* This is the guard on the requests k < r in the actions below.

\* A request arrives and the handler runs up to its first await: the
\* checks of the configuration and of the body, the preparation of the
\* workflow, and the POST of it to ComfyUI.
GenerateImage(r, prompt, randomSeed) ==
    /\ img[r].pc = "idle"
    /\ \A k \in 1 .. r - 1 : img[k].pc # "idle"
    /\ LET q == [img[r] EXCEPT !.prompt = prompt]
           prepared == Prepare(comfyWorkflow, comfyWorkflowFile, prompt, randomSeed)
       IN  IF ~comfyUiUrl
           THEN img' = [img EXCEPT ![r] = Reply(q, 500)] /\ UNCHANGED comfyWorkflow
           ELSE IF ~prompt.object \/ prompt.positive = Falsy
           THEN img' = [img EXCEPT ![r] = Reply(q, 400)] /\ UNCHANGED comfyWorkflow
           ELSE IF comfyWorkflow = NoWorkflow
           THEN img' = [img EXCEPT ![r] = Reply(q, 500)] /\ UNCHANGED comfyWorkflow
           ELSE /\ comfyWorkflow' = DeepCopy(comfyWorkflow, prepared)
                /\ IF NodeIds(comfyWorkflowFile).positive \notin DOMAIN comfyWorkflow
                   THEN img' = [img EXCEPT ![r] = Reply(q, 500)]
                   ELSE img' = [img EXCEPT ![r] = [q EXCEPT !.pc = "queueing", !.workflow = prepared]]
    /\ UNCHANGED <<comfyUiUrl, comfyWorkflowFile, gpVars, fxVars, trVars, oaVars, ceVars>>

\* The POST to /prompt settles: rejected, answered outside 2xx, or
\* answered within 2xx.
QueueResponse(r, outcome) ==
    /\ img[r].pc = "queueing"
    /\ \A k \in 1 .. r - 1 : img[k].pc = "done"
    /\ img' = [img EXCEPT ![r] = IF outcome = "ok" THEN [@ EXCEPT !.pc = "queued"] ELSE Reply([@ EXCEPT !.last = "threw"], 500)]
    /\ UNCHANGED <<comfyUiUrl, comfyWorkflowFile, comfyWorkflow, gpVars, fxVars, trVars, oaVars, ceVars>>

\* The body of the queue reply: not JSON, an error object, or a prompt id,
\* with which the loop is entered.
QueueBody(r, outcome) ==
    /\ img[r].pc = "queued"
    /\ \A k \in 1 .. r - 1 : img[k].pc = "done"
    /\ img' = [img EXCEPT ![r] = IF outcome = "prompt_id"
                                 THEN LoopTest([@ EXCEPT !.promptId = TRUE])
                                 ELSE Reply([@ EXCEPT !.last = "threw"], 500)]
    /\ UNCHANGED <<comfyUiUrl, comfyWorkflowFile, comfyWorkflow, gpVars, fxVars, trVars, oaVars, ceVars>>

\* The timer of pollInterval fires and the history is requested.
TimerFires(r) ==
    /\ img[r].pc = "sleeping"
    /\ \A k \in 1 .. r - 1 : img[k].pc = "done"
    /\ img' = [img EXCEPT ![r] = [@ EXCEPT !.pc = "fetching", !.last = "none"]]
    /\ UNCHANGED <<comfyUiUrl, comfyWorkflowFile, comfyWorkflow, gpVars, fxVars, trVars, oaVars, ceVars>>

\* The history request settles: rejected (the catch block), answered
\* outside 2xx (continue), or answered within 2xx.
HistoryResponse(r, outcome) ==
    /\ img[r].pc = "fetching"
    /\ \A k \in 1 .. r - 1 : img[k].pc = "done"
    /\ img' = [img EXCEPT ![r] =
                 CASE outcome = "rejected" -> Reply([@ EXCEPT !.last = "threw"], 500)
                   [] outcome = "notOk" -> LoopTest([@ EXCEPT !.last = "notOk", !.i = @ + 1])
                   [] OTHER -> [@ EXCEPT !.pc = "parsing"]]
    /\ UNCHANGED <<comfyUiUrl, comfyWorkflowFile, comfyWorkflow, gpVars, fxVars, trVars, oaVars, ceVars>>

\* The body of the history reply: not JSON, JSON null, an entry without
\* outputs (all three raise), no entry or an entry without an image at
\* the output node (next iteration), or an image (break).
HistoryBody(r, body) ==
    /\ img[r].pc = "parsing"
    /\ \A k \in 1 .. r - 1 : img[k].pc = "done"
    /\ img' = [img EXCEPT ![r] =
                 CASE body \in {"unparsable", "null", "noOutputs"} -> Reply([@ EXCEPT !.last = "threw"], 500)
                   [] body \in {"noEntry", "noImages"} -> LoopTest([@ EXCEPT !.last = "noImage", !.i = @ + 1])
                   [] OTHER -> AfterLoop([@ EXCEPT !.last = "image", !.imageUrl = TRUE])]
    /\ UNCHANGED <<comfyUiUrl, comfyWorkflowFile, comfyWorkflow, gpVars, fxVars, trVars, oaVars, ceVars>>

\* Math.floor(Math.random() * Number.MAX_SAFE_INTEGER) is one of two
\* seeds.
ImageNext ==
    \E r \in 1 .. MaxImageRequests :
        \/ \E prompt \in Prompts(r), randomSeed \in {1, 2} : GenerateImage(r, prompt, randomSeed)
        \/ \E outcome \in {"rejected", "notOk", "ok"} : QueueResponse(r, outcome)
        \/ \E outcome \in {"unparsable", "error", "prompt_id"} : QueueBody(r, outcome)
        \/ TimerFires(r)
        \/ \E outcome \in {"rejected", "notOk", "ok"} : HistoryResponse(r, outcome)
        \/ \E body \in {"unparsable", "null", "noOutputs", "noEntry", "noImages", "image"} : HistoryBody(r, body)

ImageSpec == ImageInit /\ [][ImageNext]_vars


\* ---------------------------------------------------------------------
\* Properties of the image generation endpoint.

ImageRequests == 1 .. MaxImageRequests

\* While a request is in the loop, fewer than maxAttempts polls are
\* behind it: the poll under way is at most the 120th.
PollsBounded ==
    \A r \in ImageRequests :
        img[r].pc \in {"sleeping", "fetching", "parsing"} => img[r].i < maxAttempts

\* A request has one response when its handler has returned, and none
\* before.
OneResponse ==
    \A r \in ImageRequests : img[r].responses = IF img[r].pc = "done" THEN 1 ELSE 0

\* After a poll answered outside 2xx, the request is either waiting for
\* its next poll with one more attempt used, or was the last attempt and
\* answered 504.
NotOkConsumesOneAttempt ==
    \A r \in ImageRequests :
        img[r].last = "notOk" =>
            \/ img[r].pc = "sleeping" /\ img[r].i >= 1
            \/ img[r].pc = "done" /\ img[r].status = 504 /\ img[r].exhausted

\* C29 (as stated): the polling loop of a request makes at most 120
\* history polls, the request then has exactly one response, which is 200
\* with the image URL if a poll found an image and 504 otherwise, and a
\* poll answered outside 2xx only uses up one attempt.
C29_PolledRequestGets200Or504 ==
    /\ PollsBounded
    /\ OneResponse
    /\ NotOkConsumesOneAttempt
    /\ \A r \in ImageRequests :
           (img[r].pc = "done" /\ img[r].promptId) =>
               img[r].status = IF img[r].imageUrl THEN 200 ELSE 504

\* C29 (amended): the polling loop of a request makes at most 120 history
\* polls and the request then has exactly one response: 200 with the image
\* URL if a poll found an image, 500 if a poll raised (the history request
\* was rejected, or its body was not JSON or not a history object), and
\* 504 only after 120 polls none of which found an image; a poll answered
\* outside 2xx only uses up one attempt.
C29_PolledRequestGets200Or504Or500 ==
    /\ PollsBounded
    /\ OneResponse
    /\ NotOkConsumesOneAttempt
    /\ \A r \in ImageRequests :
           (img[r].pc = "done" /\ img[r].promptId) =>
               CASE img[r].last = "image" -> img[r].status = 200 /\ img[r].imageUrl
                 [] img[r].last = "threw" -> img[r].status = 500 /\ ~img[r].imageUrl
                 [] OTHER -> img[r].status = 504 /\ img[r].exhausted /\ ~img[r].imageUrl

\* A request whose 120 polls found no image, the last of them answered
\* outside 2xx, was answered 504, and another one was answered 200.
C29_Witness ==
    /\ \E r \in ImageRequests :
           /\ img[r].pc = "done" /\ img[r].status = 504
           /\ img[r].exhausted /\ img[r].last = "notOk" /\ img[r].responses = 1
    /\ \E r \in ImageRequests :
           img[r].pc = "done" /\ img[r].status = 200 /\ img[r].last = "image"

\* The texts of a workflow that some request wrote.
TextsOfRequests(workflow) ==
    {workflow[n] : n \in {m \in DOMAIN workflow : workflow[m][1] \in {"positive", "negative"}}}

\* C30: no request to the image generation endpoint modifies the workflow
\* loaded at startup, and the workflow a request sent to ComfyUI has the
\* request's own positive prompt at the positive prompt node and no text
\* of another request at any node, however the requests overlap.
C30_LoadedWorkflowUntouchedAndOwnPromptQueued ==
    /\ [][comfyWorkflow' = comfyWorkflow]_vars
    /\ [](\A r \in ImageRequests :
              img[r].workflow # NoWorkflow =>
                  /\ img[r].workflow[NodeIds(comfyWorkflowFile).positive] = <<"positive", r>>
                  /\ \A text \in TextsOfRequests(img[r].workflow) : text[2] = r)

\* The first request, with a negative prompt, is between two polls when
\* the second, without one, sends its workflow: it has its own positive
\* prompt and the negative text of the workflow file.
C30_Witness ==
    /\ DOMAIN comfyWorkflow = {"3", "6", "7"}
    /\ img[1].pc = "sleeping" /\ img[1].i > 0
    /\ img[1].workflow["7"] = <<"negative", 1>>
    /\ img[2].pc = "queueing"
    /\ img[2].prompt.negative = Falsy
    /\ img[2].workflow["6"] = <<"positive", 2>>
    /\ img[2].workflow["7"] = <<"template", 0>>
    /\ img[2].workflow["3"][2] > 0

====
